---------------------------- MODULE Spec2Model ----------------------------
(***************************************************************************)
(* Model of the mzd local agent daemon (ModernizedAI/openclaw, src/mzd):   *)
(* the path guard, the command validator, the tool dispatcher with the     *)
(* patch and command tools, and the WebSocket session protocol.            *)
(*                                                                         *)
(* Strings the code inspects character by character (paths, glob and      *)
(* regex subjects, patch lines) are sequences of one-character strings.    *)
(***************************************************************************)
EXTENDS Integers, Sequences, FiniteSets, TLC

(***************************************************************************)
(* Bounds of the model.                                                    *)
(***************************************************************************)
MaxSegs == 3

(***************************************************************************)
(* String helpers (JavaScript String methods used by the code).            *)
(***************************************************************************)
StartsWith(s, pre) ==
  /\ Len(s) >= Len(pre)
  /\ SubSeq(s, 1, Len(pre)) = pre

Slice(s, n) == SubSeq(s, n + 1, Len(s))

RECURSIVE Split(_, _)
Split(s, c) ==
  IF \A i \in DOMAIN s : s[i] # c
  THEN <<s>>
  ELSE LET k == CHOOSE i \in DOMAIN s : s[i] = c /\ \A j \in 1..(i - 1) : s[j] # c
       IN  <<SubSeq(s, 1, k - 1)>> \o Split(SubSeq(s, k + 1, Len(s)), c)

RECURSIVE JoinWith(_, _)
JoinWith(parts, sep) ==
  IF Len(parts) = 0 THEN <<>>
  ELSE IF Len(parts) = 1 THEN parts[1]
  ELSE parts[1] \o sep \o JoinWith(Tail(parts), sep)

(***************************************************************************)
(* Regular expressions, as the JavaScript engine evaluates RegExp.test:    *)
(* an unanchored search; RxEnds(r, s, I) is the set of positions at which  *)
(* a match of r that starts at a position of I can end.                    *)
(***************************************************************************)
LowerChars == {"a","b","c","d","e","f","g","h","i","j","k","l","m",
               "n","o","p","q","r","s","t","u","v","w","x","y","z"}
UpperChars == {"A","B","C","D","E","F","G","H","I","J","K","L","M",
               "N","O","P","Q","R","S","T","U","V","W","X","Y","Z"}
DigitChars == {"0","1","2","3","4","5","6","7","8","9"}
WordChars  == LowerChars \cup UpperChars \cup DigitChars \cup {"_"}
SpaceChars == {" ", "\t", "\n", "\r"}
LineEnds   == {"\n", "\r"}

RxLit(c)    == [t |-> "chr", neg |-> FALSE, cs |-> {c}]
RxSet(cs)   == [t |-> "chr", neg |-> FALSE, cs |-> cs]
RxNot(cs)   == [t |-> "chr", neg |-> TRUE,  cs |-> cs]
RxDot       == RxNot(LineEnds)
RxSpace     == RxSet(SpaceChars)
RxWord      == RxSet(WordChars)
RxDigit     == RxSet(DigitChars)
RxBol       == [t |-> "bol"]
RxEol       == [t |-> "eol"]
RxCat(rs)   == [t |-> "cat", rs |-> rs]
RxAlt(rs)   == [t |-> "alt", rs |-> rs]
RxStar(r)   == [t |-> "star", r |-> r]
RxPlus(r)   == [t |-> "cat", rs |-> <<r, [t |-> "star", r |-> r]>>]
RxOpt(r)    == [t |-> "alt", rs |-> <<r, [t |-> "cat", rs |-> <<>>]>>]
RxStr(s)    == [t |-> "cat", rs |-> [i \in DOMAIN s |-> RxLit(s[i])]]
RxWords(ws) == [t |-> "alt", rs |-> [i \in DOMAIN ws |-> RxStr(ws[i])]]

RECURSIVE RxEnds(_, _, _)
RECURSIVE RxSeqEnds(_, _, _, _)
RECURSIVE RxStarEnds(_, _, _)

RxEnds(r, s, I) ==
  CASE r.t = "chr"  -> {i + 1 : i \in {j \in I : j < Len(s)
                                        /\ ((s[j + 1] \in r.cs) # r.neg)}}
    [] r.t = "bol"  -> I \cap {0}
    [] r.t = "eol"  -> I \cap {Len(s)}
    [] r.t = "cat"  -> RxSeqEnds(r.rs, 1, s, I)
    [] r.t = "alt"  -> UNION {RxEnds(r.rs[k], s, I) : k \in DOMAIN r.rs}
    [] r.t = "star" -> RxStarEnds(r.r, s, I)

RxSeqEnds(rs, k, s, I) ==
  IF k > Len(rs) \/ I = {} THEN I
  ELSE RxSeqEnds(rs, k + 1, s, RxEnds(rs[k], s, I))

RxStarEnds(r, s, I) ==
  LET J == I \cup RxEnds(r, s, I)
  IN  IF J = I THEN I ELSE RxStarEnds(r, s, J)

RegExpTest(r, s) == RxEnds(r, s, 0..Len(s)) # {}

(***************************************************************************)
(* node:path (POSIX): normalize, join, resolve, relative, isAbsolute.      *)
(***************************************************************************)
Slash  == <<"/">>
DotDot == <<".", ".">>
Dot    == <<".">>

isAbsolute(p) == Len(p) > 0 /\ p[1] = "/"

\* normalizeString: resolves "." and ".." segments; above the start of a
\* relative path ".." is kept, above the root it is dropped.
RECURSIVE normalizeSegs(_, _, _)
normalizeSegs(segs, acc, allowAboveRoot) ==
  IF Len(segs) = 0 THEN acc
  ELSE LET seg == Head(segs)
           rest == Tail(segs)
       IN  IF seg = <<>> \/ seg = Dot
           THEN normalizeSegs(rest, acc, allowAboveRoot)
           ELSE IF seg = DotDot
           THEN IF Len(acc) > 0 /\ acc[Len(acc)] # DotDot
                THEN normalizeSegs(rest, SubSeq(acc, 1, Len(acc) - 1), allowAboveRoot)
                ELSE IF allowAboveRoot
                THEN normalizeSegs(rest, Append(acc, seg), allowAboveRoot)
                ELSE normalizeSegs(rest, acc, allowAboveRoot)
           ELSE normalizeSegs(rest, Append(acc, seg), allowAboveRoot)

normalizeString(p, allowAboveRoot) ==
  JoinWith(normalizeSegs(Split(p, "/"), <<>>, allowAboveRoot), Slash)

normalize(p) ==
  IF Len(p) = 0 THEN Dot
  ELSE LET abs      == isAbsolute(p)
           trailing == p[Len(p)] = "/"
           body     == normalizeString(p, ~abs)
       IN  IF Len(body) = 0
           THEN IF abs THEN Slash ELSE IF trailing THEN <<".", "/">> ELSE Dot
           ELSE (IF abs THEN Slash ELSE <<>>) \o body \o (IF trailing THEN Slash ELSE <<>>)

join(a, b) ==
  IF Len(a) = 0 /\ Len(b) = 0 THEN Dot
  ELSE IF Len(a) = 0 THEN normalize(b)
  ELSE IF Len(b) = 0 THEN normalize(a)
  ELSE normalize(a \o Slash \o b)

\* path.resolve of a path that is already absolute (the workspace root is
\* absolute, and so is every path validatePath relativises).
resolveSegs(p) == normalizeSegs(Split(p, "/"), <<>>, FALSE)

RECURSIVE commonPrefixLen(_, _)
commonPrefixLen(a, b) ==
  IF Len(a) = 0 \/ Len(b) = 0 \/ Head(a) # Head(b) THEN 0
  ELSE 1 + commonPrefixLen(Tail(a), Tail(b))

relative(from, to) ==
  LET f == resolveSegs(from)
      t == resolveSegs(to)
      n == commonPrefixLen(f, t)
      ups == [i \in 1..(Len(f) - n) |-> DotDot]
  IN  JoinWith(ups \o SubSeq(t, n + 1, Len(t)), Slash)

(***************************************************************************)
(* matchGlob / matchGlobSimple (path-validator.ts): the glob is rewritten  *)
(* into a regular expression and tested against the whole string.          *)
(***************************************************************************)
RECURSIVE globToRegex(_)
globToRegex(pattern) ==
  IF Len(pattern) = 0 THEN <<>>
  ELSE IF StartsWith(pattern, <<"*", "*">>)
  THEN <<RxStar(RxDot)>> \o globToRegex(Slice(pattern, 2))
  ELSE IF pattern[1] = "*"
  THEN <<RxStar(RxNot({"/"}))>> \o globToRegex(Slice(pattern, 1))
  ELSE IF pattern[1] = "?"
  THEN <<RxNot({"/"})>> \o globToRegex(Slice(pattern, 1))
  ELSE <<RxLit(pattern[1])>> \o globToRegex(Slice(pattern, 1))

matchGlobSimple(pattern, str) ==
  RegExpTest(RxCat(<<RxBol>> \o globToRegex(pattern) \o <<RxEol>>), str)

matchGlob(pattern, str) ==
  IF StartsWith(pattern, <<"*", "*", "/">>)
  THEN LET processedPattern == Slice(pattern, 3)
           parts == Split(str, "/")
       IN  \E i \in 1..Len(parts) :
             matchGlobSimple(processedPattern,
                             JoinWith(SubSeq(parts, i, Len(parts)), Slash))
  ELSE matchGlobSimple(pattern, str)

DEFAULT_DENY_PATTERNS == <<
  <<"*","*","/",".","g","i","t","/","c","o","n","f","i","g">>,
  <<"*","*","/",".","g","i","t","/","c","r","e","d","e","n","t","i","a","l","s">>,
  <<"*","*","/",".","g","i","t","/","o","b","j","e","c","t","s","/","*","*">>,
  <<"*","*","/",".","g","i","t","/","r","e","f","s","/","*","*">>,
  <<"*","*","/",".","s","s","h","/","*","*">>,
  <<"*","*","/",".","a","w","s","/","*","*">>,
  <<"*","*","/",".","e","n","v">>,
  <<"*","*","/",".","e","n","v",".","*">>,
  <<"*","*","/",".","e","n","v",".","l","o","c","a","l">>,
  <<"*","*","/",".","e","n","v",".","*",".","l","o","c","a","l">>,
  <<"*","*","/","s","e","c","r","e","t","s","/","*","*">>,
  <<"*","*","/",".","s","e","c","r","e","t","s","/","*","*">>,
  <<"*","*","/","*",".","p","e","m">>,
  <<"*","*","/","*",".","k","e","y">>,
  <<"*","*","/","i","d","_","r","s","a","*">>,
  <<"*","*","/","i","d","_","e","d","2","5","5","1","9","*">>,
  <<"*","*","/","i","d","_","e","c","d","s","a","*">>,
  <<"*","*","/","c","r","e","d","e","n","t","i","a","l","s","*">>,
  <<"*","*","/","p","a","s","s","w","o","r","d","*">>,
  <<"*","*","/","t","o","k","e","n","*">>,
  <<"*","*","/",".","n","p","m","r","c">>,
  <<"*","*","/",".","p","y","p","i","r","c">>,
  <<"*","*","/",".","D","S","_","S","t","o","r","e">>,
  <<"*","*","/","T","h","u","m","b","s",".","d","b">> >>

(***************************************************************************)
(* validatePath (path-validator.ts).                                       *)
(***************************************************************************)
PathOk(abs, rel) ==
  [valid |-> TRUE, absolutePath |-> abs, relativePath |-> rel,
   code |-> "", message |-> "", pattern |-> <<>>]

PathError(message, pattern) ==
  [valid |-> FALSE, absolutePath |-> <<>>, relativePath |-> <<>>,
   code |-> "FORBIDDEN_PATH", message |-> message, pattern |-> pattern]

\* One turn of the deny loop: the pattern against the relative path, and a
\* pattern that starts with "/" also against the absolute path.
denyHit(pattern, relativePath, absolutePath) ==
  \/ matchGlob(pattern, relativePath)
  \/ isAbsolute(pattern) /\ matchGlob(pattern, absolutePath)

\* The error of the first pattern that hits.
denyError(pattern, relativePath) ==
  PathError(IF matchGlob(pattern, relativePath)
            THEN "Path matches deny pattern"
            ELSE "Absolute path matches deny pattern", pattern)

\* Variant: containment decided by comparing the characters of the two
\* paths instead of relativising (a sibling such as /w/px passes).
validatePath_prefixCheck(inputPath, workspace, config) ==
  LET normalizedInput == normalize(inputPath)
      absolutePath == IF isAbsolute(normalizedInput)
                      THEN normalizedInput
                      ELSE join(workspace.path, normalizedInput)
      relativePath == relative(workspace.path, absolutePath)
      denyPatterns == DEFAULT_DENY_PATTERNS \o config.globalDenyPatterns
                        \o workspace.denyPatterns
      hits == {k \in DOMAIN denyPatterns :
                 denyHit(denyPatterns[k], relativePath, absolutePath)}
  IN  IF ~StartsWith(absolutePath, workspace.path)
      THEN PathError("Path escapes workspace boundary", <<>>)
      ELSE IF hits # {}
      THEN denyError(denyPatterns[CHOOSE k \in hits : \A j \in hits : k <= j],
                     relativePath)
      ELSE PathOk(absolutePath, relativePath)

\* Variant: a configured deny list replaces the built-in list instead of
\* extending it.
validatePath_configReplacesDefaults(inputPath, workspace, config) ==
  LET normalizedInput == normalize(inputPath)
      absolutePath == IF isAbsolute(normalizedInput)
                      THEN normalizedInput
                      ELSE join(workspace.path, normalizedInput)
      relativePath == relative(workspace.path, absolutePath)
      configured == config.globalDenyPatterns \o workspace.denyPatterns
      denyPatterns == IF Len(configured) > 0 THEN configured
                      ELSE DEFAULT_DENY_PATTERNS
      hits == {k \in DOMAIN denyPatterns :
                 denyHit(denyPatterns[k], relativePath, absolutePath)}
  IN  IF StartsWith(relativePath, DotDot) \/ isAbsolute(relativePath)
      THEN PathError("Path escapes workspace boundary", <<>>)
      ELSE IF hits # {}
      THEN denyError(denyPatterns[CHOOSE k \in hits : \A j \in hits : k <= j],
                     relativePath)
      ELSE PathOk(absolutePath, relativePath)

validatePath(inputPath, workspace, config) ==
  LET normalizedInput == normalize(inputPath)
      absolutePath == IF isAbsolute(normalizedInput)
                      THEN normalizedInput
                      ELSE join(workspace.path, normalizedInput)
      relativePath == relative(workspace.path, absolutePath)
      denyPatterns == DEFAULT_DENY_PATTERNS \o config.globalDenyPatterns
                        \o workspace.denyPatterns
      hits == {k \in DOMAIN denyPatterns :
                 denyHit(denyPatterns[k], relativePath, absolutePath)}
  IN  IF StartsWith(relativePath, DotDot) \/ isAbsolute(relativePath)
      THEN PathError("Path escapes workspace boundary", <<>>)
      ELSE IF hits # {}
      THEN denyError(denyPatterns[CHOOSE k \in hits : \A j \in hits : k <= j],
                     relativePath)
      ELSE PathOk(absolutePath, relativePath)

(***************************************************************************)
(* Command validator (command-validator.ts).                               *)
(***************************************************************************)
\* The grave accent, which a TLA+ string cannot hold, under a name.
Backtick   == "<grave>"

Sp1        == RxPlus(RxSpace)                \* \s+
Sp0        == RxStar(RxSpace)                \* \s*
AnyStar    == RxStar(RxDot)                  \* .*
EndOrSpace == RxAlt(<<RxSpace, RxEol>>)      \* (\s|$)
Quote      == RxSet({"'", "\""})             \* ['"]
PkgTools   == RxWords(<< <<"n","p","m">>, <<"p","n","p","m">>, <<"y","a","r","n">>, <<"b","u","n">> >>)
RunOpt     == RxOpt(RxCat(<<RxStr(<<"r","u","n">>), Sp1>>))   \* (run\s+)?

\* /^word(\s|$)/
RxCommandWord(w) == RxCat(<<RxBol, RxStr(w), EndOrSpace>>)

DEFAULT_ALLOWED_COMMANDS == <<
  RxCat(<<RxBol,
          RxAlt(<<RxStr(<<"n","o","d","e">>), RxStr(<<"n","p","m">>), RxStr(<<"n","p","x">>), RxStr(<<"p","n","p","m">>),
                  RxCat(<<RxStr(<<"b","u","n">>), RxOpt(RxLit("x"))>>),
                  RxStr(<<"y","a","r","n">>), RxStr(<<"d","e","n","o">>),
                  RxCat(<<RxStr(<<"p","y","t","h","o","n">>), RxOpt(RxLit("3"))>>),
                  RxStr(<<"r","u","b","y">>), RxStr(<<"g","o">>), RxStr(<<"c","a","r","g","o">>),
                  RxStr(<<"m","a","k","e">>), RxStr(<<"c","m","a","k","e">>)>>),
          Sp1,
          RxWords(<< <<"-","-","v","e","r","s","i","o","n">>, <<"-","v">>, <<"-","-","h","e","l","p">>, <<"-","h">> >>),
          RxEol>>),
  RxCat(<<RxBol, RxStr(<<"n","p","m">>), Sp1,
          RxWords(<< <<"l","i","s","t">>, <<"l","s">>, <<"o","u","t","d","a","t","e","d">>, <<"a","u","d","i","t">>, <<"v","i","e","w">>, <<"i","n","f","o">>,
                     <<"s","e","a","r","c","h">>, <<"r","u","n">>, <<"t","e","s","t">>, <<"e","x","e","c">> >>), EndOrSpace>>),
  RxCat(<<RxBol, RxStr(<<"p","n","p","m">>), Sp1,
          RxWords(<< <<"l","i","s","t">>, <<"l","s">>, <<"o","u","t","d","a","t","e","d">>, <<"a","u","d","i","t">>, <<"v","i","e","w">>,
                     <<"r","u","n">>, <<"t","e","s","t">>, <<"e","x","e","c">> >>), EndOrSpace>>),
  RxCat(<<RxBol, RxStr(<<"y","a","r","n">>), Sp1,
          RxWords(<< <<"l","i","s","t">>, <<"o","u","t","d","a","t","e","d">>, <<"i","n","f","o">>, <<"r","u","n">>, <<"t","e","s","t">> >>),
          EndOrSpace>>),
  RxCat(<<RxBol, RxStr(<<"b","u","n">>), Sp1,
          RxWords(<< <<"r","u","n">>, <<"t","e","s","t">>, <<"x">> >>), EndOrSpace>>),
  RxCat(<<RxBol, PkgTools, Sp1, RunOpt,
          RxWords(<< <<"b","u","i","l","d">>, <<"c","o","m","p","i","l","e">>, <<"b","u","n","d","l","e">>, <<"p","r","e","p","a","r","e">> >>),
          EndOrSpace>>),
  RxCat(<<RxBol, RxWords(<< <<"m","a","k","e">>, <<"c","m","a","k","e">> >>),
          RxOpt(RxCat(<<Sp1, RxStr(<<"-","j">>), RxPlus(RxDigit)>>)),
          RxOpt(RxCat(<<Sp1, RxPlus(RxWord)>>)), RxEol>>),
  RxCat(<<RxBol, RxStr(<<"c","a","r","g","o">>), Sp1,
          RxWords(<< <<"b","u","i","l","d">>, <<"c","h","e","c","k">>, <<"c","l","i","p","p","y">>, <<"f","m","t">>, <<"t","e","s","t">> >>),
          EndOrSpace>>),
  RxCat(<<RxBol, RxStr(<<"g","o">>), Sp1,
          RxWords(<< <<"b","u","i","l","d">>, <<"t","e","s","t">>, <<"v","e","t">>, <<"f","m","t">>, <<"m","o","d">> >>),
          EndOrSpace>>),
  RxCat(<<RxBol, PkgTools, Sp1, RunOpt, RxStr(<<"t","e","s","t">>), EndOrSpace>>),
  RxCat(<<RxBol,
          RxWords(<< <<"p","y","t","e","s","t">>, <<"j","e","s","t">>, <<"v","i","t","e","s","t">>, <<"m","o","c","h","a">>, <<"a","v","a">>, <<"t","a","p">>,
                     <<"b","u","n"," ","t","e","s","t">> >>), EndOrSpace>>),
  RxCat(<<RxBol, RxStr(<<"p","y","t","h","o","n">>), RxOpt(RxLit("3")), Sp1, RxStr(<<"-","m">>), Sp1,
          RxWords(<< <<"p","y","t","e","s","t">>, <<"u","n","i","t","t","e","s","t">> >>), EndOrSpace>>),
  RxCat(<<RxBol,
          RxWords(<< <<"e","s","l","i","n","t">>, <<"p","r","e","t","t","i","e","r">>, <<"o","x","l","i","n","t">>, <<"b","i","o","m","e">>, <<"r","u","f","f">>,
                     <<"b","l","a","c","k">>, <<"i","s","o","r","t">>, <<"g","o","f","m","t">>, <<"r","u","s","t","f","m","t">> >>), EndOrSpace>>),
  RxCat(<<RxBol, PkgTools, Sp1, RunOpt,
          RxWords(<< <<"l","i","n","t">>, <<"f","o","r","m","a","t">>, <<"c","h","e","c","k">> >>), EndOrSpace>>),
  RxCat(<<RxBol, RxWords(<< <<"t","s","c">>, <<"p","y","r","i","g","h","t">>, <<"m","y","p","y">> >>), EndOrSpace>>),
  RxCat(<<RxBol, PkgTools, Sp1, RunOpt,
          RxWords(<< <<"t","y","p","e","c","h","e","c","k">>, <<"t","y","p","e","s">> >>), EndOrSpace>>),
  RxCat(<<RxBol, RxStr(<<"g","i","t">>), Sp1,
          RxAlt(<<RxStr(<<"s","t","a","t","u","s">>), RxStr(<<"l","o","g">>), RxStr(<<"d","i","f","f">>), RxStr(<<"s","h","o","w">>),
                  RxStr(<<"b","r","a","n","c","h">>), RxStr(<<"t","a","g">>), RxStr(<<"r","e","m","o","t","e">>),
                  RxCat(<<RxStr(<<"c","o","n","f","i","g">>), Sp1, RxStr(<<"-","-","g","e","t">>)>>)>>),
          EndOrSpace>>),
  RxCat(<<RxBol, RxStr(<<"g","i","t">>), Sp1, RxStr(<<"l","s","-","f","i","l","e","s">>), EndOrSpace>>),
  RxCommandWord(<<"l","s">>),
  RxCat(<<RxBol, RxStr(<<"f","i","n","d">>), Sp1, RxLit("."), RxSpace>>),
  RxCommandWord(<<"t","r","e","e">>),
  RxCommandWord(<<"w","c">>),
  RxCommandWord(<<"h","e","a","d">>),
  RxCommandWord(<<"t","a","i","l">>),
  RxCommandWord(<<"c","a","t">>),
  RxCommandWord(<<"l","e","s","s">>),
  RxCommandWord(<<"g","r","e","p">>),
  RxCommandWord(<<"r","g">>),
  RxCommandWord(<<"a","g">>),
  RxCommandWord(<<"f","d">>) >>

ALWAYS_DENIED_PATTERNS == <<
  RxCat(<<RxBol, RxStr(<<"r","m">>), Sp1, RxStr(<<"-","r","f">>), Sp1, RxLit("/")>>),
  RxCat(<<RxBol, RxStr(<<"r","m">>), Sp1, RxStr(<<"-","r","f">>), Sp1, RxLit("~")>>),
  RxCat(<<RxBol, RxStr(<<"r","m">>), Sp1, RxStr(<<"-","-","n","o","-","p","r","e","s","e","r","v","e","-","r","o","o","t">>)>>),
  RxCat(<<RxBol, RxStr(<<"m","k","f","s">>)>>),
  RxCat(<<RxBol, RxStr(<<"d","d">>), Sp1, AnyStar, RxStr(<<"o","f","=","/","d","e","v">>)>>),
  RxCat(<<RxBol, RxStr(<<"c","u","r","l">>), Sp1, AnyStar, RxStr(<<"-","d">>), Sp1, RxLit("@")>>),
  RxCat(<<RxBol, RxStr(<<"w","g","e","t">>), Sp1, AnyStar, RxStr(<<"-","-","p","o","s","t","-","f","i","l","e">>)>>),
  RxCat(<<RxBol, RxStr(<<"s","c","p">>), Sp1, AnyStar, RxLit("@"), AnyStar, RxLit(":")>>),
  RxCat(<<RxBol, RxStr(<<"r","s","y","n","c">>), Sp1, AnyStar, RxLit("@"), AnyStar, RxLit(":")>>),
  RxCat(<<RxBol, RxStr(<<"s","u","d","o">>), RxSpace>>),
  RxCat(<<RxBol, RxStr(<<"s","u">>), RxSpace>>),
  RxCat(<<RxBol, RxStr(<<"d","o","a","s">>), RxSpace>>),
  RxCat(<<RxBol, RxStr(<<"c","r","o","n","t","a","b">>)>>),
  RxCat(<<RxBol, RxStr(<<"a","t">>), RxSpace>>),
  RxCat(<<RxBol, RxStr(<<"s","y","s","t","e","m","c","t","l">>), Sp1,
          RxWords(<< <<"s","t","a","r","t">>, <<"s","t","o","p">>, <<"r","e","s","t","a","r","t">>, <<"e","n","a","b","l","e">>, <<"d","i","s","a","b","l","e">> >>)>>),
  RxCat(<<RxBol, RxStr(<<"s","e","r","v","i","c","e">>), Sp1, RxPlus(RxWord), Sp1,
          RxWords(<< <<"s","t","a","r","t">>, <<"s","t","o","p">>, <<"r","e","s","t","a","r","t">> >>)>>),
  RxCat(<<RxBol, RxStr(<<"l","a","u","n","c","h","c","t","l">>), Sp1,
          RxWords(<< <<"l","o","a","d">>, <<"u","n","l","o","a","d">>, <<"k","i","c","k","s","t","a","r","t">> >>)>>),
  RxCat(<<RxBol, RxStr(<<"a","p","t">>), RxOpt(RxStr(<<"-","g","e","t">>)), Sp1,
          RxWords(<< <<"i","n","s","t","a","l","l">>, <<"r","e","m","o","v","e">>, <<"p","u","r","g","e">> >>)>>),
  RxCat(<<RxBol, RxStr(<<"y","u","m">>), Sp1, RxWords(<< <<"i","n","s","t","a","l","l">>, <<"r","e","m","o","v","e">> >>)>>),
  RxCat(<<RxBol, RxStr(<<"d","n","f">>), Sp1, RxWords(<< <<"i","n","s","t","a","l","l">>, <<"r","e","m","o","v","e">> >>)>>),
  RxCat(<<RxBol, RxStr(<<"b","r","e","w">>), Sp1,
          RxWords(<< <<"i","n","s","t","a","l","l">>, <<"u","n","i","n","s","t","a","l","l">>, <<"r","e","m","o","v","e">> >>)>>),
  RxCat(<<RxLit(";"), Sp0, RxStr(<<"s","h">>), EndOrSpace>>),
  RxCat(<<RxLit("|"), Sp0, RxStr(<<"s","h">>), EndOrSpace>>),
  RxCat(<<RxLit(Backtick), AnyStar, RxLit(Backtick)>>),
  RxCat(<<RxStr(<<"$","(">>), AnyStar, RxLit(")")>>),
  RxCat(<<RxBol, RxStr(<<"e","x","p","o","r","t">>), Sp1, AnyStar, RxLit("=")>>),
  RxCat(<<RxBol, RxStr(<<"e","n","v">>), Sp1, RxPlus(RxWord), RxLit("=")>>),
  RxCat(<<RxStr(<<"p","y","t","h","o","n">>), AnyStar, RxStr(<<"-","c">>), Sp1, Quote, AnyStar,
          RxStr(<<"i","m","p","o","r","t">>), Sp1,
          RxWords(<< <<"o","s">>, <<"s","u","b","p","r","o","c","e","s","s">>, <<"s","o","c","k","e","t">> >>)>>),
  RxCat(<<RxStr(<<"n","o","d","e">>), AnyStar, RxStr(<<"-","e">>), Sp1, Quote, AnyStar,
          RxStr(<<"r","e","q","u","i","r","e">>), Sp0, RxLit("("), Quote, RxStr(<<"c","h","i","l","d","_","p","r","o","c","e","s","s">>)>>) >>

\* A pattern string of the configuration: `valid` is whether new RegExp
\* accepts it, `re` is the expression it compiles to.
UserPattern(source, re) == [source |-> source, valid |-> TRUE, re |-> re]
InvalidPattern(source)  == [source |-> source, valid |-> FALSE, re |-> RxCat(<<>>)]

\* new RegExp(pattern).test(fullCommand) inside try/catch: a pattern that
\* does not compile throws and is skipped.
userPatternTest(pattern, fullCommand) ==
  pattern.valid /\ RegExpTest(pattern.re, fullCommand)

fullCommandOf(command, args) ==
  IF Len(args) > 0 THEN command \o <<" ">> \o JoinWith(args, <<" ">>) ELSE command

CommandAllowed == [allowed |-> TRUE, code |-> "", message |-> ""]
CommandDenied(message) ==
  [allowed |-> FALSE, code |-> "COMMAND_DENIED", message |-> message]

\* Variant: the user allow list is consulted before the built-in deny list.
validateCommand_allowFirst(command, args, allowlist) ==
  LET fullCommand == fullCommandOf(command, args)
  IN  IF \E k \in DOMAIN allowlist.allow : userPatternTest(allowlist.allow[k], fullCommand)
      THEN CommandAllowed
      ELSE IF \E k \in DOMAIN ALWAYS_DENIED_PATTERNS :
             RegExpTest(ALWAYS_DENIED_PATTERNS[k], fullCommand)
      THEN CommandDenied("Command matches dangerous pattern and is not allowed")
      ELSE IF \E k \in DOMAIN allowlist.deny : userPatternTest(allowlist.deny[k], fullCommand)
      THEN CommandDenied("Command matches deny pattern in configuration")
      ELSE IF \E k \in DOMAIN DEFAULT_ALLOWED_COMMANDS :
             RegExpTest(DEFAULT_ALLOWED_COMMANDS[k], fullCommand)
      THEN CommandAllowed
      ELSE CommandDenied("Command not in allowlist. Add it to config.commands.allow if needed.")

\* Variant: the user allow list is consulted before the user deny list.
validateCommand_allowBeforeDeny(command, args, allowlist) ==
  LET fullCommand == fullCommandOf(command, args)
  IN  IF \E k \in DOMAIN ALWAYS_DENIED_PATTERNS :
           RegExpTest(ALWAYS_DENIED_PATTERNS[k], fullCommand)
      THEN CommandDenied("Command matches dangerous pattern and is not allowed")
      ELSE IF \E k \in DOMAIN allowlist.allow : userPatternTest(allowlist.allow[k], fullCommand)
      THEN CommandAllowed
      ELSE IF \E k \in DOMAIN allowlist.deny : userPatternTest(allowlist.deny[k], fullCommand)
      THEN CommandDenied("Command matches deny pattern in configuration")
      ELSE IF \E k \in DOMAIN DEFAULT_ALLOWED_COMMANDS :
             RegExpTest(DEFAULT_ALLOWED_COMMANDS[k], fullCommand)
      THEN CommandAllowed
      ELSE CommandDenied("Command not in allowlist. Add it to config.commands.allow if needed.")

\* Variant: a command that no list mentions falls through to "allowed".
validateCommand_defaultAllow(command, args, allowlist) ==
  LET fullCommand == fullCommandOf(command, args)
  IN  IF \E k \in DOMAIN ALWAYS_DENIED_PATTERNS :
           RegExpTest(ALWAYS_DENIED_PATTERNS[k], fullCommand)
      THEN CommandDenied("Command matches dangerous pattern and is not allowed")
      ELSE IF \E k \in DOMAIN allowlist.deny : userPatternTest(allowlist.deny[k], fullCommand)
      THEN CommandDenied("Command matches deny pattern in configuration")
      ELSE CommandAllowed

\* Variant: an invalid user regex ends the scan of its list, so the entries
\* after it are not evaluated.
validateCommand_stopAtInvalid(command, args, allowlist) ==
  LET fullCommand == fullCommandOf(command, args)
      scanned(list, k) == \A j \in 1..k : list[j].valid
  IN  IF \E k \in DOMAIN ALWAYS_DENIED_PATTERNS :
           RegExpTest(ALWAYS_DENIED_PATTERNS[k], fullCommand)
      THEN CommandDenied("Command matches dangerous pattern and is not allowed")
      ELSE IF \E k \in DOMAIN allowlist.deny :
             scanned(allowlist.deny, k) /\ userPatternTest(allowlist.deny[k], fullCommand)
      THEN CommandDenied("Command matches deny pattern in configuration")
      ELSE IF \E k \in DOMAIN allowlist.allow :
             scanned(allowlist.allow, k) /\ userPatternTest(allowlist.allow[k], fullCommand)
      THEN CommandAllowed
      ELSE IF \E k \in DOMAIN DEFAULT_ALLOWED_COMMANDS :
             RegExpTest(DEFAULT_ALLOWED_COMMANDS[k], fullCommand)
      THEN CommandAllowed
      ELSE CommandDenied("Command not in allowlist. Add it to config.commands.allow if needed.")

validateCommand(command, args, allowlist) ==
  LET fullCommand == fullCommandOf(command, args)
  IN  IF \E k \in DOMAIN ALWAYS_DENIED_PATTERNS :
           RegExpTest(ALWAYS_DENIED_PATTERNS[k], fullCommand)
      THEN CommandDenied("Command matches dangerous pattern and is not allowed")
      ELSE IF \E k \in DOMAIN allowlist.deny : userPatternTest(allowlist.deny[k], fullCommand)
      THEN CommandDenied("Command matches deny pattern in configuration")
      ELSE IF \E k \in DOMAIN allowlist.allow : userPatternTest(allowlist.allow[k], fullCommand)
      THEN CommandAllowed
      ELSE IF \E k \in DOMAIN DEFAULT_ALLOWED_COMMANDS :
             RegExpTest(DEFAULT_ALLOWED_COMMANDS[k], fullCommand)
      THEN CommandAllowed
      ELSE CommandDenied("Command not in allowlist. Add it to config.commands.allow if needed.")

(***************************************************************************)
(* parseCommand (command-validator.ts): whitespace tokeniser with quotes   *)
(* and backslash escapes.                                                  *)
(***************************************************************************)
RECURSIVE parseChars(_, _, _, _, _)
parseChars(s, parts, current, inQuote, escaped) ==
  IF Len(s) = 0
  THEN IF Len(current) > 0 THEN Append(parts, current) ELSE parts
  ELSE LET char == Head(s)
           rest == Tail(s)
       IN  IF escaped
           THEN parseChars(rest, parts, Append(current, char), inQuote, FALSE)
           ELSE IF char = "\\"
           THEN parseChars(rest, parts, current, inQuote, TRUE)
           ELSE IF inQuote # ""
           THEN IF char = inQuote
                THEN parseChars(rest, parts, current, "", FALSE)
                ELSE parseChars(rest, parts, Append(current, char), inQuote, FALSE)
           ELSE IF char \in {"\"", "'"}
           THEN parseChars(rest, parts, current, char, FALSE)
           ELSE IF char \in {" ", "\t"}
           THEN parseChars(rest,
                           IF Len(current) > 0 THEN Append(parts, current) ELSE parts,
                           <<>>, "", FALSE)
           ELSE parseChars(rest, parts, Append(current, char), inQuote, FALSE)

parseCommand(commandString) ==
  LET parts == parseChars(commandString, <<>>, <<>>, "", FALSE)
  IN  [command |-> IF Len(parts) > 0 THEN parts[1] ELSE <<>>,
       args    |-> IF Len(parts) > 0 THEN Tail(parts) ELSE <<>>]

(***************************************************************************)
(* extractPathsFromPatch / validatePatchPaths (path-validator.ts).         *)
(***************************************************************************)
DevNull == <<"/","d","e","v","/","n","u","l","l">>

Range(f) == {f[i] : i \in DOMAIN f}

\* (.+) : one or more characters, none of them a line terminator.
IsDotPlus(s) == Len(s) > 0 /\ \A i \in DOMAIN s : s[i] \notin LineEnds

\* /^diff --git a\/(.+) b\/(.+)$/ : the first group is greedy, so the line
\* is cut at the last " b/" that leaves both groups non-empty.
diffMatch(line) ==
  LET prefix == <<"d","i","f","f"," ","-","-","g","i","t"," ","a","/">>
      rest   == Slice(line, Len(prefix))
      cuts   == {i \in 2..(Len(rest) - 3) : SubSeq(rest, i, i + 2) = <<" ","b","/">>}
      cut    == CHOOSE i \in cuts : \A j \in cuts : j <= i
  IN  IF StartsWith(line, prefix) /\ IsDotPlus(rest) /\ cuts # {}
      THEN [matched |-> TRUE, a |-> SubSeq(rest, 1, cut - 1),
            b |-> SubSeq(rest, cut + 3, Len(rest))]
      ELSE [matched |-> FALSE, a |-> <<>>, b |-> <<>>]

\* /^--- a\/(.+)$/ and /^\+\+\+ b\/(.+)$/
prefixMatch(line, prefix) ==
  IF StartsWith(line, prefix) /\ IsDotPlus(Slice(line, Len(prefix)))
  THEN [matched |-> TRUE, path |-> Slice(line, Len(prefix))]
  ELSE [matched |-> FALSE, path |-> <<>>]

\* Set.add, the set kept in insertion order as Array.from returns it.
addPath(paths, p) == IF p \in Range(paths) THEN paths ELSE Append(paths, p)

RECURSIVE extractFromLines(_, _)
extractFromLines(lines, paths) ==
  IF Len(lines) = 0 THEN paths
  ELSE LET line  == Head(lines)
           dm    == diffMatch(line)
           minus == prefixMatch(line, <<"-","-","-"," ","a","/">>)
           plus  == prefixMatch(line, <<"+","+","+"," ","b","/">>)
       IN  IF dm.matched
           THEN extractFromLines(Tail(lines), addPath(addPath(paths, dm.a), dm.b))
           ELSE IF minus.matched /\ minus.path # DevNull
           THEN extractFromLines(Tail(lines), addPath(paths, minus.path))
           ELSE IF plus.matched /\ plus.path # DevNull
           THEN extractFromLines(Tail(lines), addPath(paths, plus.path))
           ELSE extractFromLines(Tail(lines), paths)

extractPathsFromPatch(patch) == extractFromLines(Split(patch, "\n"), <<>>)

validatePatchPaths(patch, workspace, config) ==
  LET paths   == extractPathsFromPatch(patch)
      results == [i \in DOMAIN paths |-> validatePath(paths[i], workspace, config)]
      errors  == SelectSeq(results, LAMBDA r : ~r.valid)
  IN  [valid |-> Len(errors) = 0, paths |-> paths, errors |-> errors]

(***************************************************************************)
(* The git binary that fsApplyPatch runs (`git apply`), as far as the      *)
(* files it acts on are concerned.  git reads the file names from the     *)
(* patch itself: from "--- NAME" and "+++ NAME" lines, with the name cut   *)
(* at a tab and its first component stripped (-p1), /dev/null meaning no   *)
(* file.  It refuses a patch that names a path outside the working tree.   *)
(***************************************************************************)
UpToTab(s) ==
  IF \E i \in DOMAIN s : s[i] = "\t"
  THEN SubSeq(s, 1, (CHOOSE i \in DOMAIN s : s[i] = "\t"
                                 /\ \A j \in 1..(i - 1) : s[j] # "\t") - 1)
  ELSE s

stripFirstComponent(name) ==
  LET segs == Split(name, "/")
  IN  IF Len(segs) > 1 THEN JoinWith(Tail(segs), Slash) ELSE name

gitHeaderName(line) ==
  IF StartsWith(line, <<"-","-","-"," ">>) \/ StartsWith(line, <<"+","+","+"," ">>)
  THEN LET name == UpToTab(Slice(line, 4))
       IN  IF name = DevNull \/ Len(name) = 0 THEN {} ELSE {stripFirstComponent(name)}
  ELSE {}

gitPatchTargets(patch) ==
  UNION {gitHeaderName(line) : line \in Range(Split(patch, "\n"))}

gitRefusesPath(name) ==
  \/ isAbsolute(name)
  \/ DotDot \in Range(Split(name, "/"))

(***************************************************************************)
(* Tool layer: TOOL_DEFINITIONS (types.ts), the implementations            *)
(* (fs-tools.ts, cmd-tools.ts, git-tools.ts) and executeTool (executor.ts).*)
(* An implementation yields its result together with what it did to the    *)
(* machine: files written, a child process spawned, the repository moved.  *)
(***************************************************************************)
TOOL_DEFINITIONS == <<
  [name |-> "fs.list",        tier |-> "read",  requiresApproval |-> FALSE],
  [name |-> "fs.read",        tier |-> "read",  requiresApproval |-> FALSE],
  [name |-> "fs.apply_patch", tier |-> "write", requiresApproval |-> TRUE],
  [name |-> "git.status",     tier |-> "read",  requiresApproval |-> FALSE],
  [name |-> "git.diff",       tier |-> "read",  requiresApproval |-> FALSE],
  [name |-> "git.checkout",   tier |-> "write", requiresApproval |-> TRUE],
  [name |-> "git.commit",     tier |-> "write", requiresApproval |-> TRUE],
  [name |-> "cmd.run",        tier |-> "exec",  requiresApproval |-> TRUE] >>

ToolNames == {TOOL_DEFINITIONS[i].name : i \in DOMAIN TOOL_DEFINITIONS}

tierPriority == [read |-> 1, write |-> 2, exec |-> 3]

NoSpawn == <<>>

ToolOk(written, spawned, repoChanged) ==
  [isError |-> FALSE, code |-> "", written |-> written, spawned |-> spawned,
   repoChanged |-> repoChanged]

ToolError(code) ==
  [isError |-> TRUE, code |-> code, written |-> {}, spawned |-> NoSpawn,
   repoChanged |-> FALSE]

\* What the environment does with a call: how the git binary answers
\* `git apply` ("applies": the patch is applied to the tree; "stat_only":
\* the diffstat is printed and the tree is left alone, which is what stock
\* git does when --stat is given without --apply; "rejects": the patch does
\* not apply), and whether a git command of the git tools succeeds.
GitApplyBehaviours == {"applies", "stat_only", "rejects"}

\* Variant: the patch is handed to git before its paths are validated.
fsApplyPatch_applyFirst(input, ctx, git) ==
  LET pathValidation == validatePatchPaths(input.patchUnified, ctx.workspace, ctx.config)
      targets == gitPatchTargets(input.patchUnified)
      written == IF ~input.dryRun /\ git = "applies"
                    /\ ~\E f \in targets : gitRefusesPath(f)
                 THEN targets ELSE {}
  IN  IF ~pathValidation.valid
      THEN [ToolError(pathValidation.errors[1].code) EXCEPT !.written = written]
      ELSE IF ctx.workspace.tier = "read"
      THEN ToolError("FORBIDDEN_PATH")
      ELSE IF git = "rejects" \/ \E f \in targets : gitRefusesPath(f)
      THEN ToolError("PATCH_FAILED")
      ELSE ToolOk(written, NoSpawn, FALSE)

fsApplyPatch(input, ctx, git) ==
  LET pathValidation == validatePatchPaths(input.patchUnified, ctx.workspace, ctx.config)
      targets == gitPatchTargets(input.patchUnified)
  IN  IF ~pathValidation.valid
      THEN ToolError(pathValidation.errors[1].code)
      ELSE IF ctx.workspace.tier = "read"
      THEN ToolError("FORBIDDEN_PATH")
      \* requireWriteApproval: logger.info only, the call goes on
      ELSE IF git = "rejects" \/ \E f \in targets : gitRefusesPath(f)
      THEN ToolError("PATCH_FAILED")
      ELSE ToolOk(IF ~input.dryRun /\ git = "applies" THEN targets ELSE {},
                  NoSpawn, FALSE)

\* Variant: the child is spawned before the working directory is checked.
cmdRun_spawnBeforeCwdCheck(input, ctx) ==
  LET parsed     == parseCommand(input.command)
      fullArgs   == parsed.args \o input.args
      validation == validateCommand(parsed.command, fullArgs, ctx.config.commands)
      cwdValidation == validatePath(input.cwd, ctx.workspace, ctx.config)
      child      == <<[command |-> parsed.command, args |-> fullArgs,
                       cwd |-> ctx.workspace.path]>>
  IN  IF ctx.workspace.tier # "exec"
      THEN ToolError("COMMAND_DENIED")
      ELSE IF ~validation.allowed
      THEN ToolError(validation.code)
      ELSE IF Len(input.cwd) > 0 /\ ~cwdValidation.valid
      THEN [ToolError(cwdValidation.code) EXCEPT !.spawned = child]
      ELSE ToolOk({}, child, FALSE)

cmdRun(input, ctx) ==
  LET parsed     == parseCommand(input.command)
      fullArgs   == parsed.args \o input.args
      validation == validateCommand(parsed.command, fullArgs, ctx.config.commands)
      cwdValidation == validatePath(input.cwd, ctx.workspace, ctx.config)
      workingDir == IF Len(input.cwd) > 0 THEN cwdValidation.absolutePath
                    ELSE ctx.workspace.path
  IN  IF ctx.workspace.tier # "exec"
      THEN ToolError("COMMAND_DENIED")
      ELSE IF ~validation.allowed
      THEN ToolError(validation.code)
      ELSE IF Len(input.cwd) > 0 /\ ~cwdValidation.valid
      THEN ToolError(cwdValidation.code)
      \* requireExecApproval: logger.info only, the call goes on
      ELSE ToolOk({}, <<[command |-> parsed.command, args |-> fullArgs,
                         cwd |-> workingDir]>>, FALSE)

\* fs.list and fs.read: the path is validated, then the file system is read.
fsReadOnly(input, ctx) ==
  LET validation == validatePath(input.path, ctx.workspace, ctx.config)
  IN  IF ~validation.valid THEN ToolError(validation.code)
      ELSE ToolOk({}, NoSpawn, FALSE)

\* git.status and git.diff
gitReadOnly(input, ctx) ==
  IF ~ctx.workspace.allowGit THEN ToolError("GIT_ERROR")
  ELSE ToolOk({}, NoSpawn, FALSE)

\* git.checkout and git.commit
gitMutating(input, ctx) ==
  IF ~ctx.workspace.allowGit THEN ToolError("GIT_ERROR")
  ELSE IF ctx.workspace.tier = "read" THEN ToolError("FORBIDDEN_PATH")
  ELSE ToolOk({}, NoSpawn, TRUE)

toolImplementation(name, input, ctx, git) ==
  CASE name \in {"fs.list", "fs.read"}          -> fsReadOnly(input, ctx)
    [] name = "fs.apply_patch"                  -> fsApplyPatch(input, ctx, git)
    [] name \in {"git.status", "git.diff"}      -> gitReadOnly(input, ctx)
    [] name \in {"git.checkout", "git.commit"}  -> gitMutating(input, ctx)
    [] name = "cmd.run"                         -> cmdRun(input, ctx)

toolDefOf(name) ==
  TOOL_DEFINITIONS[CHOOSE i \in DOMAIN TOOL_DEFINITIONS : TOOL_DEFINITIONS[i].name = name]

\* Variant: the tier comparison is dropped from the dispatcher.
executeTool_noTierCheck(name, input, ctx, git) ==
  IF name \notin ToolNames
  THEN [invoked |-> FALSE, out |-> ToolError("INTERNAL_ERROR")]
  ELSE [invoked |-> TRUE, out |-> toolImplementation(name, input, ctx, git)]

\* executeTool: `invoked` is whether the call reached the implementation.
executeTool(name, input, ctx, git) ==
  IF name \notin ToolNames
  THEN [invoked |-> FALSE, out |-> ToolError("INTERNAL_ERROR")]
  ELSE IF tierPriority[toolDefOf(name).tier] > tierPriority[ctx.workspace.tier]
  THEN [invoked |-> FALSE, out |-> ToolError("FORBIDDEN_PATH")]
  ELSE [invoked |-> TRUE, out |-> toolImplementation(name, input, ctx, git)]

(***************************************************************************)
(* The workspace and the configurations the model draws from.              *)
(***************************************************************************)
Tiers == {"read", "write", "exec"}

WorkspaceRoot == <<"/","w","/","p">>

GlobalDenyChoices == { <<>>, << <<"*","*","/","*",".","l","o","g">> >>, << <<"/","w","/","p","/","a">> >> }
WorkspaceDenyChoices == { <<>>, << <<"a","/","*","*">> >> }

Workspace(tier, denyPatterns) ==
  [name |-> "test", path |-> WorkspaceRoot, tier |-> tier,
   denyPatterns |-> denyPatterns, allowGit |-> TRUE]

\* The default of approvals.approvalTimeoutMs: five minutes.
approvalTimeoutMs == 300000

\* getDefaultConfig with the given lists (config/types.ts): approvals are
\* required by default and nothing is approved automatically.
Config(globalDenyPatterns, allow, deny) ==
  [globalDenyPatterns |-> globalDenyPatterns,
   commands  |-> [allow |-> allow, deny |-> deny],
   approvals |-> [requireWriteApproval |-> TRUE, requireExecApproval |-> TRUE,
                  autoApprovePatterns |-> <<>>,
                  approvalTimeoutMs |-> approvalTimeoutMs]]

\* Input paths: every sequence of up to MaxSegs segments of SegVocab,
\* relative or absolute, and some spellings that need normalising.
SegVocab == { DotDot, <<"w">>, <<"p">>, <<"a">>, <<".","e","n","v">> }

RECURSIVE SegSeqs(_)
SegSeqs(n) ==
  IF n = 0 THEN { <<>> }
  ELSE LET shorter == SegSeqs(n - 1)
       IN  shorter \cup { Append(q, g) : q \in shorter, g \in SegVocab }

ExtraPaths == {
  <<>>, <<".">>, <<"/">>, <<".","/","a">>, <<"a","/">>, <<"a","/","/","p">>, <<".",".","a">>, <<"a","/",".",".","a">>,
  <<"/","w","/","p","x">>, <<"/","w","/","p","/">>, <<"/","w","/","p","/",".",".","/","p","/","a">>, <<"/","w","/","p","/",".",".","/",".",".","/","e","t","c","/","p","a","s","s","w","d">>,
  <<".",".","/",".",".","/",".",".","/","e","t","c","/","p","a","s","s","w","d">>, <<"/","e","t","c","/","p","a","s","s","w","d">>, <<"s","r","c","/","m","a","i","n",".","t","s">>,
  <<".","g","i","t","/","c","o","n","f","i","g">>, <<".","g","i","t","/","h","o","o","k","s","/","p","r","e","-","c","o","m","m","i","t">>, <<"a","/",".","g","i","t","/","c","o","n","f","i","g">>,
  <<".","g","i","t","/","o","b","j","e","c","t","s","/","a","b","/","c","d">>, <<".","s","s","h","/","i","d","_","r","s","a">>, <<"a","/","b","/","c","/","d","/",".","e","n","v">>,
  <<".","e","n","v",".","l","o","c","a","l">>, <<"a","/",".","e","n","v",".","p","r","o","d",".","l","o","c","a","l">>, <<"c","o","n","f","i","g","/","c","r","e","d","e","n","t","i","a","l","s",".","j","s","o","n">>,
  <<"a","/","s","e","r","v","e","r",".","p","e","m">>, <<"a","/","x",".","k","e","y">>, <<"s","e","c","r","e","t","s","/","k">>, <<"a","/","s","e","c","r","e","t","s","/","k","/","v">>,
  <<"s","e","c","r","e","t","s">>, <<"a","/","t","o","k","e","n",".","t","x","t">>, <<".","n","p","m","r","c">>, <<"a","/","T","h","u","m","b","s",".","d","b">>,
  <<"a","/","b",".","l","o","g">>, <<"a","/","e","n","v">>, <<"a","/","k","e","y","s">>, <<"a","/",".","e","n","v","i","r","o","n","m","e","n","t">> }

PathInputs ==
  { JoinWith(q, Slash) : q \in SegSeqs(MaxSegs) }
    \cup { Slash \o JoinWith(q, Slash) : q \in SegSeqs(MaxSegs) }
    \cup ExtraPaths


(***************************************************************************)
(* Commands and allow/deny lists the model draws from.                     *)
(***************************************************************************)
MaxArgs == 2

CommandWords == { <<"l","s">>, <<"s","u","d","o">>, <<"g","i","t">>, <<"e","c","h","o">>, <<"r","m">> }
ArgWords     == { <<"s","t","a","t","u","s">>, <<"p","u","s","h">>, <<";">>, <<"s","h">>, <<"-","r","f">>, <<"/">> }

RECURSIVE ArgSeqs(_)
ArgSeqs(n) ==
  IF n = 0 THEN { <<>> }
  ELSE LET shorter == ArgSeqs(n - 1)
       IN  shorter \cup { Append(q, a) : q \in shorter, a \in ArgWords }

PatEcho    == UserPattern("^echo\\s", RxCat(<<RxBol, RxStr(<<"e","c","h","o">>), RxSpace>>))
PatAny     == UserPattern(".*", AnyStar)
PatGitPush == UserPattern("^git\\s+push",
                          RxCat(<<RxBol, RxStr(<<"g","i","t">>), Sp1, RxStr(<<"p","u","s","h">>)>>))
PatSudo    == UserPattern("^sudo\\s", RxCat(<<RxBol, RxStr(<<"s","u","d","o">>), RxSpace>>))
PatShEnd   == UserPattern("sh$", RxCat(<<RxStr(<<"s","h">>), RxEol>>))
PatBroken  == InvalidPattern("(unclosed")

UserAllowChoices == { <<>>, <<PatEcho>>, <<PatAny>>, <<PatBroken, PatGitPush, PatSudo>> }
UserDenyChoices  == { <<>>, <<PatGitPush>>, <<PatShEnd, PatEcho>>, <<PatBroken, PatAny>> }

(***************************************************************************)
(* Patches the model draws from: up to MaxPatchFiles file sections, each   *)
(* for one file in one header style.                                       *)
(***************************************************************************)
MaxPatchFiles == 2

PatchFiles == { <<"s","r","c","/","m","a","i","n">>, <<".","e","n","v">>, <<".",".","/",".",".","/","e","t","c","/","p","a","s","s","w","d">> }

HunkLine == <<"@","@"," ","-","1"," ","+","1"," ","@","@">>

\* "git": what `git diff` prints; "new": a file created; "plain": the
\* ---/+++ pair alone; "dirs": what `diff -u old/f new/f` prints, the two
\* sides under directory names other than a and b.
HeaderStyles == {"git", "new", "plain", "dirs"}

FileSection(style, f) ==
  CASE style = "git" ->
         << <<"d","i","f","f"," ","-","-","g","i","t"," ","a","/">> \o f \o <<" ","b","/">> \o f,
            <<"-","-","-"," ","a","/">> \o f, <<"+","+","+"," ","b","/">> \o f, HunkLine >>
    [] style = "new" ->
         << <<"d","i","f","f"," ","-","-","g","i","t"," ","a","/">> \o f \o <<" ","b","/">> \o f,
            <<"-","-","-"," ","/","d","e","v","/","n","u","l","l">>, <<"+","+","+"," ","b","/">> \o f, HunkLine >>
    [] style = "plain" ->
         << <<"-","-","-"," ","a","/">> \o f, <<"+","+","+"," ","b","/">> \o f, HunkLine >>
    [] style = "dirs" ->
         << <<"-","-","-"," ","o","l","d","/">> \o f, <<"+","+","+"," ","n","e","w","/">> \o f, HunkLine >>

FileSections == { FileSection(st, f) : st \in HeaderStyles, f \in PatchFiles }

RECURSIVE PatchLineSeqs(_)
PatchLineSeqs(n) ==
  IF n = 0 THEN { <<>> }
  ELSE LET shorter == PatchLineSeqs(n - 1)
       IN  shorter \cup { q \o sec : q \in shorter, sec \in FileSections }

PatchInputs == { JoinWith(ls, <<"\n">>) : ls \in PatchLineSeqs(MaxPatchFiles) }

(***************************************************************************)
(* Tool calls the model draws from.                                        *)
(***************************************************************************)
Ctx(tier, allowGit) ==
  [workspace |-> [Workspace(tier, <<>>) EXCEPT !.allowGit = allowGit],
   config    |-> Config(<<>>, <<PatEcho>>, <<PatGitPush>>)]

ToolPaths == { <<"a">>, <<".","e","n","v">>, <<".",".","/","x">> }

CmdRunInputs ==
  [command : { <<"l","s">>, <<"l","s"," ",";"," ","s","h">>, <<"e","c","h","o"," ","h","i">>, <<"s","u","d","o"," ","l","s">>, <<"g","i","t"," "," ","'","p","u","s","h","'">>,
               <<"m","a","k","e","\\"," ","i","n","s","t","a","l","l">> },
   args    : { <<>>, << <<"-","l","a">> >> },
   cwd     : { <<>> } \cup ToolPaths]

ToolCallInputs ==
  [name : {"fs.list", "fs.read"}, input : [path : ToolPaths],
   git : {"applies"}, allowGit : {TRUE}]
  \cup
  [name : {"fs.apply_patch"},
   input : [patchUnified : PatchInputs, dryRun : BOOLEAN],
   git : GitApplyBehaviours, allowGit : {TRUE}]
  \cup
  [name : {"git.status", "git.diff", "git.checkout", "git.commit"},
   input : [ref : { <<"m","a","i","n">> }], git : {"applies"}, allowGit : BOOLEAN]
  \cup
  [name : {"cmd.run"}, input : CmdRunInputs, git : {"applies"}, allowGit : {TRUE}]
  \cup
  [name : {"fs.delete"}, input : [path : ToolPaths], git : {"applies"},
   allowGit : {TRUE}]

(***************************************************************************)
(* Local agent daemon (server/daemon.ts): frames, tokens and the pure      *)
(* parts of its handlers.                                                  *)
(***************************************************************************)
MaxClients  == 2     \* sockets that connect in one run
MaxMessages == 3     \* messages handled in one run, over all sockets
MaxTicks    == 1     \* heartbeat broadcasts in one run

Sockets == 1..MaxClients

\* A JSON value used as a frame id: a string, a number (written in digits)
\* or nothing at all.
IdStr(v) == [t |-> "string", v |-> v]
IdNum(v) == [t |-> "number", v |-> v]
IdUndefined == [t |-> "undefined", v |-> ""]
IdUnknown == IdStr("unknown")

\* !id of JavaScript: undefined, the empty string and the number 0.
falsy(id) ==
  \/ id.t = "undefined"
  \/ id.t = "string" /\ id.v = ""
  \/ id.t = "number" /\ id.v = "0"

\* Tokens: a string of characters, a value that is no string, or none.
TokStr(chars) == [t |-> "string", chars |-> chars]
TokNumber == [t |-> "number", chars |-> <<>>]
TokUndefined == [t |-> "undefined", chars |-> <<>>]

\* Bytes of one character in UTF-8; every character here is one UTF-16 unit.
\* A character outside ASCII (two bytes in UTF-8), under a name.
EAcute == "<e-acute>"

Utf8Bytes(c) == IF c = EAcute THEN 2 ELSE 1

RECURSIVE ByteLength(_)
ByteLength(chars) ==
  IF Len(chars) = 0 THEN 0 ELSE Utf8Bytes(Head(chars)) + ByteLength(Tail(chars))

authToken == <<"s","3">>

\* handleConnect's token check: "valid", "invalid", or "throws" when
\* crypto.timingSafeEqual is handed buffers of different byte lengths.
tokenCheck(token) ==
  LET providedToken == IF token.t = "undefined" \/ (token.t = "string" /\ Len(token.chars) = 0)
                       THEN TokStr(<<>>) ELSE token
  IN  IF providedToken.t # "string" THEN "invalid"   \* .length is undefined
      ELSE IF Len(providedToken.chars) # Len(authToken) THEN "invalid"
      ELSE IF ByteLength(providedToken.chars) # ByteLength(authToken) THEN "throws"
      ELSE IF providedToken.chars = authToken THEN "valid"
      ELSE "invalid"

\* Frames as JSON.parse hands them to handleMessage: text that does not
\* parse, the value null, or an object with the fields of a RequestFrame.
NoParams == [token |-> TokUndefined, clientName |-> "", tool |-> "", callId |-> 0]

ObjectFrame(type, id, method, params) ==
  [json |-> "object", type |-> type, id |-> id, method |-> method, params |-> params]

BadJson   == [ObjectFrame("", IdUndefined, "", NoParams) EXCEPT !.json = "invalid"]
NullFrame == [ObjectFrame("", IdUndefined, "", NoParams) EXCEPT !.json = "null"]

ConnectFrame(id, token) ==
  ObjectFrame("req", id, "connect", [NoParams EXCEPT !.token = token, !.clientName = "cli"])

ToolsCallFrame(id, tool, callId) ==
  ObjectFrame("req", id, "tools.call", [NoParams EXCEPT !.tool = tool, !.callId = callId])

\* A message larger than the limit: what is known of it is its size in
\* bytes and the length of its text (UTF-16 units, never more than bytes).
MAX_PAYLOAD_BYTES == 5 * 1024 * 1024

OversizedFrame == [ObjectFrame("", IdUndefined, "", NoParams) EXCEPT !.json = "oversized"]

Message(bytes, length) == [bytes |-> bytes, length |-> length]

LargeMessages ==
  { Message(MAX_PAYLOAD_BYTES + 1, MAX_PAYLOAD_BYTES + 1),
    Message(MAX_PAYLOAD_BYTES + 2, MAX_PAYLOAD_BYTES) }

\* The WebSocketServer is created with maxPayload: a message of more bytes
\* is refused by the receiver, which closes the socket (status 1009) and
\* emits no "message" event.
receiverDelivers(m) == m.bytes <= MAX_PAYLOAD_BYTES

\* Response frames (sendResponse) and event frames (broadcastEvent).
ResponseFrame(id, ok, code, payload) ==
  [type |-> "res", id |-> id, ok |-> ok, code |-> code, payload |-> payload,
   event |-> "", phase |-> "", toolCallId |-> [src |-> "", n |-> 0], seq |-> 0]

ErrorResponse(id, code) == ResponseFrame(id, FALSE, code, "")

EventFrame(event, phase, toolCallId, seq) ==
  [type |-> "event", id |-> IdUndefined, ok |-> FALSE, code |-> "", payload |-> "",
   event |-> event, phase |-> phase, toolCallId |-> toolCallId, seq |-> seq]

NoCallId == [src |-> "", n |-> 0]

NoFrameSent == [ResponseFrame(IdUndefined, FALSE, "", "") EXCEPT !.type = "none"]

\* The tools of the catalogue that the workspace tier admits.
getAvailableTools(tier) ==
  {TOOL_DEFINITIONS[i].name : i \in {j \in DOMAIN TOOL_DEFINITIONS :
      tierPriority[TOOL_DEFINITIONS[j].tier] <= tierPriority[tier]}}

\* What handleMessage does with a frame, given the session's flag, up to
\* its first await: the response it sends (if any), the flag afterwards,
\* whether it closes the socket, whether a tool call starts, whether it
\* throws.
Handled(reply, authenticated, closes, startsTool, throws) ==
  [reply |-> reply, authenticated |-> authenticated, closes |-> closes,
   startsTool |-> startsTool, throws |-> throws]

\* Variant: a failed connect clears the flag of the session.
handleConnect_resetOnFailure(authenticated, id, params) ==
  LET tokenValid == tokenCheck(params.token)
  IN  IF tokenValid = "throws"
      THEN Handled(NoFrameSent, authenticated, FALSE, FALSE, TRUE)
      ELSE IF tokenValid # "valid"
      THEN Handled(ErrorResponse(id, "AUTH_FAILED"), FALSE, TRUE, FALSE, FALSE)
      ELSE Handled(ResponseFrame(id, TRUE, "", "hello-ok"), TRUE, FALSE, FALSE, FALSE)

handleConnect(authenticated, id, params) ==
  LET tokenValid == tokenCheck(params.token)
  IN  IF tokenValid = "throws"
      THEN Handled(NoFrameSent, authenticated, FALSE, FALSE, TRUE)
      ELSE IF tokenValid # "valid"
      THEN Handled(ErrorResponse(id, "AUTH_FAILED"), authenticated, TRUE, FALSE, FALSE)
      ELSE Handled(ResponseFrame(id, TRUE, "", "hello-ok"), TRUE, FALSE, FALSE, FALSE)

\* ws.on("message"): the size check that precedes handleMessage.
payloadCheck(m) ==
  IF m.length > MAX_PAYLOAD_BYTES
  THEN ErrorResponse(IdUnknown, "PAYLOAD_TOO_LARGE")
  ELSE NoFrameSent

handleMessage(authenticated, frame) ==
  IF frame.json = "invalid"
  THEN Handled(ErrorResponse(IdUnknown, "PARSE_ERROR"), authenticated, FALSE, FALSE, FALSE)
  ELSE IF frame.json = "null"      \* frame.type of null: TypeError
  THEN Handled(NoFrameSent, authenticated, FALSE, FALSE, TRUE)
  ELSE IF frame.type # "req" \/ frame.method = "" \/ falsy(frame.id)
  THEN Handled(ErrorResponse(IF falsy(frame.id) THEN IdUnknown ELSE frame.id,
                             "INVALID_REQUEST"),
               authenticated, FALSE, FALSE, FALSE)
  ELSE IF frame.method = "connect"
  THEN handleConnect(authenticated, frame.id, frame.params)
  ELSE IF ~authenticated
  THEN Handled(ErrorResponse(frame.id, "UNAUTHORIZED"), authenticated, FALSE, FALSE, FALSE)
  ELSE CASE frame.method = "tools.list" ->
              Handled(ResponseFrame(frame.id, TRUE, "", "tools"),
                      authenticated, FALSE, FALSE, FALSE)
         [] frame.method = "tools.call" ->
              Handled(NoFrameSent, authenticated, FALSE, TRUE, FALSE)
         [] frame.method = "ping" ->
              Handled(ResponseFrame(frame.id, TRUE, "", "pong"),
                      authenticated, FALSE, FALSE, FALSE)
         [] OTHER ->
              Handled(ErrorResponse(frame.id, "METHOD_NOT_FOUND"),
                      authenticated, FALSE, FALSE, FALSE)

\* The tool calls made on the daemon's RunContext, by a short key: a
\* patch to an ordinary file, a commit, a command, and fs.read without
\* arguments (its destructuring of `input` throws).
DaemonToolCall(key) ==
  CASE key = "patch"  -> [name |-> "fs.apply_patch", hasArgs |-> TRUE,
                          input |-> [patchUnified |->
                                       JoinWith(FileSection("plain", <<"s","r","c","/","m","a","i","n">>), <<"\n">>),
                                     dryRun |-> FALSE]]
    [] key = "commit" -> [name |-> "git.commit", hasArgs |-> TRUE,
                          input |-> [ref |-> <<"m","a","i","n">>]]
    [] key = "run"    -> [name |-> "cmd.run", hasArgs |-> TRUE,
                          input |-> [command |-> <<"l","s">>, args |-> <<>>, cwd |-> <<>>]]
    [] OTHER          -> [name |-> "fs.read", hasArgs |-> FALSE,
                          input |-> [path |-> <<>>]]

\* The calls that clients of the daemon make, and the calls that
\* approvals are asked for.
DaemonToolKeys == {"patch", "commit", "noargs"}

GatedToolKeys == {"patch", "run"}

\* handleToolsCall's `try { await executeTool } catch`: an exception of
\* the tool becomes an INTERNAL_ERROR result.
Returned(r) == [invoked |-> r.invoked, threw |-> FALSE, out |-> r.out]

tryExecuteTool(call, context, git) ==
  IF ~call.hasArgs /\ call.name \in ToolNames
       /\ tierPriority[toolDefOf(call.name).tier] <= tierPriority[context.workspace.tier]
  THEN [invoked |-> TRUE, threw |-> TRUE, out |-> ToolError("INTERNAL_ERROR")]
  ELSE Returned(executeTool(call.name, call.input, context, git))

\* tryExecuteTool on one of these calls under each behaviour of git, and
\* the table of them for a RunContext.
ResultsByGit(key, context) ==
  [git \in GitApplyBehaviours |-> tryExecuteTool(DaemonToolCall(key), context, git)]

ToolAnswers(context) ==
  [key \in DaemonToolKeys \cup GatedToolKeys |-> ResultsByGit(key, context)]

\* The daemon's token, a wrong token of the same length, and a wrong token
\* of the same length in characters but not in bytes.
DaemonTokens == { TokStr(authToken), TokStr(<<"s","4">>), TokStr(<<"s", EAcute>>) }

DaemonFrames ==
  { BadJson, NullFrame, ObjectFrame("res", IdStr("r1"), "ping", NoParams) }
    \cup { ObjectFrame("req", id, "ping", NoParams) : id \in {IdStr("r1"), IdNum("0")} }
    \cup { ObjectFrame("req", IdStr("r2"), "bogus", NoParams) }
    \cup { ConnectFrame(IdStr("c1"), tok) : tok \in DaemonTokens }
    \cup { ToolsCallFrame(IdStr("t1"), key, 0) : key \in DaemonToolKeys }


(***************************************************************************)
(* The approval flow: createApprovalRequest, requestApproval and the       *)
(* policy functions.                                                       *)
(***************************************************************************)
MaxApprovals  == 2     \* approvals created in one run
MaxClockSteps == 3     \* steps of the clock in one run

\* The clock moves in steps of half the approval timeout.
ClockStep == approvalTimeoutMs \div 2

PatSrc == UserPattern("^src/", RxCat(<<RxBol, RxStr(<<"s","r","c","/">>)>>))

\* approvals.autoApprovePatterns: none (the default), one that matches the
\* files under src/, and one that does not compile.
AutoApproveChoices == { <<>>, <<PatSrc>>, <<PatBroken>> }

\* A RunContext of the exec tier with the given auto-approve patterns.
ApprovalCtx(patterns) ==
  [Ctx("exec", TRUE) EXCEPT !.config.approvals.autoApprovePatterns = patterns]

\* What approvals are asked for: the patch to a file under src/ and the
\* command of GatedToolKeys.
ApprovalDetails(paths, path, command) ==
  [paths |-> paths, path |-> path, command |-> command, args |-> <<>>, cwd |-> <<>>]

ApprovalInputs ==
  { [type |-> "patch", details |-> ApprovalDetails(<< <<"s","r","c","/","m","a","i","n">> >>, <<>>, <<>>)],
    [type |-> "exec",  details |-> ApprovalDetails(<<>>, <<>>, <<"l","s">>)] }

\* Map.set and Map.delete on a table keyed by id.
MapSet(m, k, v) == [i \in DOMAIN m \cup {k} |-> IF i = k THEN v ELSE m[i]]

MapDelete(m, k) == [i \in DOMAIN m \ {k} |-> m[i]]

\* createApprovalRequest: the record, and the table with the record in it.
createApprovalRequest(table, id, now, config, type, details) ==
  LET approval == [id |-> id, type |-> type, details |-> details,
                   createdAt |-> now,
                   timeoutAt |-> now + config.approvals.approvalTimeoutMs]
  IN  [approval |-> approval, table |-> MapSet(table, id, approval)]

isApprovalTimedOut(approval, now) == now > approval.timeoutAt

\* shouldAutoApprove: every path (or the command) of the approval matches
\* one of the patterns that compile, and there is at least one.
pathsToCheck(approval) ==
  CASE approval.type = "patch" -> approval.details.paths
    [] approval.type = "write" -> <<approval.details.path>>
    [] OTHER                   -> <<approval.details.command>>

shouldAutoApprove(approval, config) ==
  LET patterns == config.approvals.autoApprovePatterns
      paths    == pathsToCheck(approval)
  IN  IF Len(patterns) = 0 THEN FALSE
      ELSE /\ \A i \in DOMAIN paths :
                \E j \in DOMAIN patterns : userPatternTest(patterns[j], paths[i])
           /\ Len(paths) > 0

ApprovalResult(approved, reason, approvedBy) ==
  [approved |-> approved, reason |-> reason, approvedBy |-> approvedBy]

\* The audit entry requestApproval appends when it resolves.
ApprovalAudit(approved, approvedBy, error) ==
  [type |-> "approval", approved |-> approved, approvedBy |-> approvedBy,
   error |-> error]

\* What requestApproval makes of a line read from stdin (lower case,
\* trimmed): it resolves, or it asks again.
AnswerLines == {"y", "no", "skip", "v", "maybe"}

answerKind(line) ==
  CASE line \in {"y", "yes"}  -> "approve"
    [] line \in {"n", "no"}   -> "deny"
    [] line \in {"s", "skip"} -> "skip"
    [] OTHER                  -> "again"

\* The resolution of requestApproval for an answer that resolves it.
answerResult(kind) ==
  CASE kind = "approve" -> ApprovalResult(TRUE, "", "user")
    [] kind = "deny"    -> ApprovalResult(FALSE, "user denied", "")
    [] OTHER            -> ApprovalResult(FALSE, "skipped", "")

answerAudit(kind) ==
  CASE kind = "approve" -> ApprovalAudit(TRUE, "user", "")
    [] kind = "deny"    -> ApprovalAudit(FALSE, "user", "")
    [] OTHER            -> ApprovalAudit(FALSE, "user", "skipped")

\* The tool call an approval describes, by its key.
GatedKey(approval) == IF approval.type = "exec" THEN "run" ELSE "patch"
(***************************************************************************)
(* State.                                                                  *)
(***************************************************************************)
VARIABLES
  pathPc,     \* "call" before validatePath has run on pathIn, "done" after
  pathIn,     \* [inputPath, workspace, config] handed to validatePath
  pathOut,    \* the PathValidationResult
  cmdPc,      \* the same for validateCommand
  cmdIn,      \* [command, args, allowlist]
  cmdOut,     \* the CommandValidationResult
  toolPc,     \* the same for executeTool
  toolIn,     \* [name, input, ctx, git]
  toolOut,    \* [invoked, out]
  running,    \* LocalAgentDaemon.running
  crashed,    \* the process has died of an unhandled rejection
  ctx,        \* the daemon's RunContext: workspace and config
  toolAnswers, \* what executeTool returns under ctx for each call a client
              \* can make and each behaviour of git (ctx never changes)
  wsState,    \* per socket: "unused", "open", "closing", "closed"
  clients,    \* the keys of LocalAgentDaemon.clients
  client,     \* per socket, its ConnectedClient record
  wire,       \* per socket, in send order, the frames sent to it by a
              \* broadcast or after an await: events and tools.call responses
  inflight,   \* tools.call requests waiting at `await executeTool`
  callLog,    \* in program order, what handleToolsCall has done: events
              \* broadcast, executeTool settled, audit entries, responses
  auditLog,   \* ctx.auditLog
  fsWritten,  \* files written by tools
  spawned,    \* child processes spawned by tools
  toolRuns,   \* number of tool implementations that ran
  handled,    \* number of messages handled so far
  ticks,      \* number of heartbeat broadcasts so far
  pendingApprovals, \* ctx.pendingApprovals: the Map from id to PendingApproval
  clock,      \* the time in ms since the RunContext was created
  approvalsMade, \* every PendingApproval createApprovalRequest has returned,
              \* in order; the id of an approval is its position
  approvalCall, \* per approval, the state of requestApproval on it, its
              \* timer and the ApprovalResult it resolved with
  approvalWaiting, \* the approvals whose question is open, in asking order
  gatedOp,    \* per approval, the tool call it describes once executed
  patchPc,    \* "call" before extractPathsFromPatch has run on patchIn
  patchIn,    \* two patches for the same files in two header variants
  patchOut,   \* the paths extracted from each
  gitPc,      \* the same for one git tool
  gitIn,      \* [name, input]
  gitOut,     \* the command lines handed to the shell, and what git is run with
  listPc,     \* the same for fs.list
  listIn,     \* [fs, input]: the files on disk and the FsListInput
  listOut,    \* the ToolResult
  run,        \* the closure of one cmdRun promise: buffers, flag, timers
  proc,       \* the ChildProcess of that call and the process behind it
  session,    \* the client session that made that call: "open", "closed"
  last,       \* the last message handled: socket, frame, flag before, and the
              \* response handleMessage sent for it before its first await
  sendFailed, \* per socket, the seq of every event whose ws.send threw
  tokPc,      \* "call" before the token check of handleConnect has run
  tokIn,      \* the token supplied and the daemon's token
  tokOut,     \* what the check did: its result and the bytes it examined
  orchCtx,    \* TaskRunner.orchCtx: limits and stats, <<>> for null
  orchRun,    \* the execute(task) call of the runner: position, task, the
              \* plan steps it ran, its risks and its result
  callers,    \* per caller, the state of its callTool invocation
  executions, \* tool executions started by callTool, calls made, and the
              \* largest number of executions open together
  conn,       \* LocalAgentClient: ws, connected, authenticated, and the
              \* state of the socket behind ws
  pendingRequests, \* the keys of LocalAgentClient.pendingRequests
  requests    \* per request id, its promise, its timer and its frame

pathVars == <<pathPc, pathIn, pathOut>>
cmdVars  == <<cmdPc, cmdIn, cmdOut>>
toolVars == <<toolPc, toolIn, toolOut>>
patchVars == <<patchPc, patchIn, patchOut>>
gitVars  == <<gitPc, gitIn, gitOut>>
listVars == <<listPc, listIn, listOut>>
procVars == <<run, proc, session>>
tokVars  == <<tokPc, tokIn, tokOut>>
orchVars == <<orchCtx, orchRun, callers, executions>>
clientVars == <<conn, pendingRequests, requests>>
extVars  == <<tokVars, orchVars, clientVars>>
auxVars  == <<patchVars, gitVars, listVars, procVars, extVars>>
approvalVars == <<pendingApprovals, clock, approvalsMade, approvalCall,
                  approvalWaiting, gatedOp>>
daemonVars == <<approvalVars, running, crashed, ctx, toolAnswers, wsState, clients, client, wire, inflight,
                callLog, auditLog, fsWritten, spawned, toolRuns, handled, ticks, last,
                sendFailed>>
vars == <<pathPc, pathIn, pathOut, cmdPc, cmdIn, cmdOut, toolPc, toolIn, toolOut,
          running, crashed, ctx, toolAnswers, wsState, clients, client, wire, inflight,
          callLog, auditLog, fsWritten, spawned, toolRuns, handled, ticks, last,
          pendingApprovals, clock, approvalsMade, approvalCall, approvalWaiting,
          gatedOp, patchPc, patchIn, patchOut, gitPc, gitIn, gitOut,
          listPc, listIn, listOut, run, proc, session, sendFailed,
          tokPc, tokIn, tokOut, orchCtx, orchRun, callers, executions,
          conn, pendingRequests, requests>>

NoPathResult ==
  [valid |-> FALSE, absolutePath |-> <<>>, relativePath |-> <<>>,
   code |-> "NONE", message |-> "", pattern |-> <<>>]

NoCommandResult == [allowed |-> FALSE, code |-> "NONE", message |-> ""]

NoToolResult == [invoked |-> FALSE, out |-> ToolError("NONE")]

\* A part of the state that a specification does not exercise.
PathIdle == pathPc = "idle" /\ pathIn = <<>> /\ pathOut = NoPathResult
CmdIdle  == cmdPc = "idle" /\ cmdIn = <<>> /\ cmdOut = NoCommandResult
ToolIdle == toolPc = "idle" /\ toolIn = <<>> /\ toolOut = NoToolResult
PatchIdle == patchPc = "idle" /\ patchIn = <<>> /\ patchOut = <<>>
GitIdle  == gitPc = "idle" /\ gitIn = <<>> /\ gitOut = <<>>
ListIdle == listPc = "idle" /\ listIn = <<>> /\ listOut = <<>>
ProcIdle == run = <<>> /\ proc = <<>> /\ session = "none"
TokIdle  == tokPc = "idle" /\ tokIn = <<>> /\ tokOut = <<>>
OrchIdle == orchCtx = <<>> /\ orchRun = <<>> /\ callers = <<>> /\ executions = <<>>
ClientIdle == conn = <<>> /\ pendingRequests = {} /\ requests = <<>>
ExtIdle  == TokIdle /\ OrchIdle /\ ClientIdle


\* handleConnection's fresh ConnectedClient.
NewClient == [authenticated |-> FALSE, eventSeq |-> 0, clientName |-> ""]

NoMessage ==
  [ws |-> 0, frame |-> BadJson, authBefore |-> FALSE, reply |-> NoFrameSent,
   delivered |-> FALSE, outcome |-> "none"]

\* requestApproval has not been called on an approval; no tool call has
\* been executed for it.
\* `audited` is who wrote the audit entries of the call, in order, and
\* `answeredDue` whether its timer was due when an answer cleared it.
NoApprovalCall ==
  [state |-> "none", timerAt |-> 0,
   result |-> [approved |-> FALSE, reason |-> "", approvedBy |-> ""],
   audited |-> <<>>, answeredDue |-> FALSE]

NoGatedOp == [ran |-> FALSE, resolvedBefore |-> "", out |-> ToolError("NONE")]

\* createRunContext: an empty table; nothing has been asked.
ApprovalIdle ==
  /\ pendingApprovals = <<>>
  /\ clock = 0
  /\ approvalsMade = <<>>
  /\ approvalCall = [i \in 1..MaxApprovals |-> NoApprovalCall]
  /\ approvalWaiting = <<>>
  /\ gatedOp = [i \in 1..MaxApprovals |-> NoGatedOp]

\* The daemon on a RunContext, not started, with a table of tool results.
DaemonWith(context, answers) ==
  /\ running = FALSE /\ crashed = FALSE
  /\ ctx = context
  /\ toolAnswers = answers
  /\ wsState = [w \in Sockets |-> "unused"]
  /\ clients = {}
  /\ client = [w \in Sockets |-> NewClient]
  /\ wire = [w \in Sockets |-> <<>>]
  /\ inflight = <<>>
  /\ callLog = <<>>
  /\ auditLog = <<>>
  /\ fsWritten = {} /\ spawned = <<>> /\ toolRuns = 0
  /\ handled = 0 /\ ticks = 0
  /\ last = NoMessage
  /\ sendFailed = [w \in Sockets |-> {}]
  /\ ApprovalIdle

\* The daemon as constructed on a RunContext, and for a workspace of the
\* given tier.
DaemonConstructedOn(context) == DaemonWith(context, ToolAnswers(context))

DaemonConstructed(tier) == DaemonConstructedOn(Ctx(tier, TRUE))

\* A specification that makes no tool call through the daemon.
DaemonIdle == DaemonWith(Ctx("write", TRUE), <<>>)
(***************************************************************************)
(* SpecPath: validatePath applied to one input.                            *)
(***************************************************************************)
PathInit ==
  /\ CmdIdle /\ ToolIdle /\ DaemonIdle
  /\ PatchIdle /\ GitIdle /\ ListIdle /\ ProcIdle /\ ExtIdle
  /\ pathPc = "call"
  /\ pathIn \in [inputPath : PathInputs,
                 workspace : {Workspace("write", d) : d \in WorkspaceDenyChoices},
                 config : {Config(g, <<>>, <<>>) : g \in GlobalDenyChoices}]
  /\ pathOut = NoPathResult

ValidatePathCall ==
  /\ pathPc = "call"
  /\ pathPc' = "done"
  /\ pathOut' = validatePath(pathIn.inputPath, pathIn.workspace, pathIn.config)
  /\ UNCHANGED <<pathIn, cmdVars, toolVars, daemonVars, auxVars>>

SpecPath == PathInit /\ [][ValidatePathCall]_vars

(***************************************************************************)
(* Claims about validatePath (SpecPath).                                   *)
(***************************************************************************)
\* The segments of an absolute path as written (nothing resolved).
PathSegs(p) == SelectSeq(Split(p, "/"), LAMBDA g : g # <<>>)

RootSegs == PathSegs(WorkspaceRoot)

\* abs names the workspace root or something beneath it.
IsRootOrDescendant(abs) ==
  /\ isAbsolute(abs)
  /\ Len(PathSegs(abs)) >= Len(RootSegs)
  /\ SubSeq(PathSegs(abs), 1, Len(RootSegs)) = RootSegs
  /\ \A i \in DOMAIN PathSegs(abs) : PathSegs(abs)[i] \notin {Dot, DotDot}

\* The normalised form of an input path: "." and ".." resolved, a relative
\* path taken from the workspace root.
NormalisedTarget(inputPath) ==
  IF isAbsolute(inputPath)
  THEN resolveSegs(inputPath)
  ELSE resolveSegs(WorkspaceRoot \o Slash \o inputPath)

TargetUnderRoot(inputPath) ==
  LET t == NormalisedTarget(inputPath)
  IN  Len(t) >= Len(RootSegs) /\ SubSeq(t, 1, Len(RootSegs)) = RootSegs

TargetRelative(inputPath) ==
  JoinWith(SubSeq(NormalisedTarget(inputPath), Len(RootSegs) + 1,
                  Len(NormalisedTarget(inputPath))), Slash)

MatchesBuiltinDeny(inputPath) ==
  /\ TargetUnderRoot(inputPath)
  /\ \E k \in DOMAIN DEFAULT_DENY_PATTERNS :
       matchGlob(DEFAULT_DENY_PATTERNS[k], TargetRelative(inputPath))

\* A path inside the hooks directory of a repository's VCS internals.
UnderGitHooks(inputPath) ==
  /\ TargetUnderRoot(inputPath)
  /\ matchGlob(<<"*","*","/",".","g","i","t","/","h","o","o","k","s","/","*","*">>, TargetRelative(inputPath))

\* C7 (as stated, .git/hooks counted among the built-in denies): under
\* every configuration a path matching a built-in deny pattern, or lying
\* in .git/hooks, is rejected.
C7_AsStated_HooksDenied ==
  (pathPc = "done"
     /\ (MatchesBuiltinDeny(pathIn.inputPath) \/ UnderGitHooks(pathIn.inputPath))) =>
    ~pathOut.valid /\ pathOut.code = "FORBIDDEN_PATH"

\* C7 (amended): whatever the global and workspace deny lists contain, a
\* path that matches one of the built-in deny patterns the code ships
\* (.git/hooks is not among them), at any depth, is rejected.
C7_BuiltinDenyNotOverridable ==
  (pathPc = "done" /\ MatchesBuiltinDeny(pathIn.inputPath)) =>
    ~pathOut.valid /\ pathOut.code = "FORBIDDEN_PATH"

\* A dotenv file two directories down was rejected by the built-in pattern
\* under a configuration that has deny lists of its own.
C7_Witness ==
  /\ pathPc = "done"
  /\ Len(pathIn.config.globalDenyPatterns) > 0
  /\ Len(pathIn.workspace.denyPatterns) > 0
  /\ Len(Split(TargetRelative(pathIn.inputPath), "/")) >= 3
  /\ pathOut.message = "Path matches deny pattern"
  /\ pathOut.pattern = <<"*","*","/",".","e","n","v">>

(***************************************************************************)
(* SpecCmd: validateCommand applied to one input.                          *)
(***************************************************************************)
CmdInit ==
  /\ PathIdle /\ ToolIdle /\ DaemonIdle
  /\ PatchIdle /\ GitIdle /\ ListIdle /\ ProcIdle /\ ExtIdle
  /\ cmdPc = "call"
  /\ cmdIn \in [command : CommandWords, args : ArgSeqs(MaxArgs),
                allowlist : [allow : UserAllowChoices, deny : UserDenyChoices]]
  /\ cmdOut = NoCommandResult

ValidateCommandCall ==
  /\ cmdPc = "call"
  /\ cmdPc' = "done"
  /\ cmdOut' = validateCommand(cmdIn.command, cmdIn.args, cmdIn.allowlist)
  /\ UNCHANGED <<cmdIn, pathVars, toolVars, daemonVars, auxVars>>

SpecCmd == CmdInit /\ [][ValidateCommandCall]_vars

(***************************************************************************)
(* Claims about validateCommand (SpecCmd).                                 *)
(***************************************************************************)
CmdLine == fullCommandOf(cmdIn.command, cmdIn.args)

MatchesAlwaysDenied(line) ==
  \E k \in DOMAIN ALWAYS_DENIED_PATTERNS : RegExpTest(ALWAYS_DENIED_PATTERNS[k], line)

MatchesDefaultAllowed(line) ==
  \E k \in DOMAIN DEFAULT_ALLOWED_COMMANDS : RegExpTest(DEFAULT_ALLOWED_COMMANDS[k], line)

MatchesUserList(list, line) ==
  \E k \in DOMAIN list : list[k].valid /\ RegExpTest(list[k].re, line)

\* C4: a command that matches a built-in always-deny pattern is denied with
\* COMMAND_DENIED whatever the user allow and deny lists contain.
C4_AlwaysDenyWins ==
  (cmdPc = "done" /\ MatchesAlwaysDenied(CmdLine)) =>
    ~cmdOut.allowed /\ cmdOut.code = "COMMAND_DENIED"

\* A command that an always-deny pattern and a user allow regex both match
\* was denied.
C4_Witness ==
  /\ cmdPc = "done"
  /\ MatchesAlwaysDenied(CmdLine)
  /\ MatchesUserList(cmdIn.allowlist.allow, CmdLine)
  /\ ~MatchesUserList(cmdIn.allowlist.deny, CmdLine)
  /\ ~cmdOut.allowed

\* C5: a command that matches a user allow regex and a user deny regex is
\* denied with COMMAND_DENIED.
C5_UserDenyBeatsUserAllow ==
  (/\ cmdPc = "done"
   /\ MatchesUserList(cmdIn.allowlist.allow, CmdLine)
   /\ MatchesUserList(cmdIn.allowlist.deny, CmdLine)) =>
    ~cmdOut.allowed /\ cmdOut.code = "COMMAND_DENIED"

\* A harmless command that both user lists match was denied by the user
\* deny list.
C5_Witness ==
  /\ cmdPc = "done"
  /\ MatchesUserList(cmdIn.allowlist.allow, CmdLine)
  /\ MatchesUserList(cmdIn.allowlist.deny, CmdLine)
  /\ ~MatchesAlwaysDenied(CmdLine)
  /\ cmdOut.message = "Command matches deny pattern in configuration"

\* C6: a command that no list matches is denied as not in the allowlist,
\* and an allowed command matched a user allow regex or a built-in allow
\* pattern and matched neither deny list.
C6_DefaultDeny ==
  cmdPc = "done" =>
    /\ (/\ ~MatchesAlwaysDenied(CmdLine)
        /\ ~MatchesUserList(cmdIn.allowlist.deny, CmdLine)
        /\ ~MatchesUserList(cmdIn.allowlist.allow, CmdLine)
        /\ ~MatchesDefaultAllowed(CmdLine))
         => (/\ ~cmdOut.allowed
             /\ cmdOut.code = "COMMAND_DENIED"
             /\ cmdOut.message = "Command not in allowlist. Add it to config.commands.allow if needed.")
    /\ cmdOut.allowed
         => (/\ \/ MatchesUserList(cmdIn.allowlist.allow, CmdLine)
                \/ MatchesDefaultAllowed(CmdLine)
             /\ ~MatchesAlwaysDenied(CmdLine)
             /\ ~MatchesUserList(cmdIn.allowlist.deny, CmdLine))

\* A command that nothing matches, under non-empty user lists, was denied
\* as not in the allowlist.
C6_Witness ==
  /\ cmdPc = "done"
  /\ Len(cmdIn.allowlist.allow) > 0
  /\ Len(cmdIn.allowlist.deny) > 0
  /\ ~MatchesDefaultAllowed(CmdLine)
  /\ cmdOut.message = "Command not in allowlist. Add it to config.commands.allow if needed."

\* The user lists with the entries that do not compile removed.
Compiles(pattern) == pattern.valid

withoutInvalid(allowlist) ==
  [allow |-> SelectSeq(allowlist.allow, Compiles),
   deny |-> SelectSeq(allowlist.deny, Compiles)]

\* C34: an invalid regex in a user list does not change the decision of
\* validateCommand: it is the decision under the lists with the invalid
\* entries removed, so the entries after an invalid one are evaluated.
InvalidPatternsSkipped ==
  cmdPc = "done" =>
    cmdOut = validateCommand(cmdIn.command, cmdIn.args, withoutInvalid(cmdIn.allowlist))

\* A list starts with an entry that does not compile, and an entry after
\* it decided the command.
DecidedAfterInvalidEntry ==
  /\ cmdPc = "done"
  /\ \/ /\ \E k \in DOMAIN cmdIn.allowlist.deny : k > 1
             /\ ~cmdIn.allowlist.deny[1].valid
             /\ userPatternTest(cmdIn.allowlist.deny[k], CmdLine)
        /\ cmdOut.message = "Command matches deny pattern in configuration"
     \/ /\ \E k \in DOMAIN cmdIn.allowlist.allow : k > 1
             /\ ~cmdIn.allowlist.allow[1].valid
             /\ userPatternTest(cmdIn.allowlist.allow[k], CmdLine)
        /\ ~MatchesDefaultAllowed(CmdLine)
        /\ cmdOut.allowed

(***************************************************************************)
(* SpecTools: executeTool applied to one tool call.                        *)
(***************************************************************************)
ToolInit ==
  /\ PathIdle /\ CmdIdle /\ DaemonIdle
  /\ PatchIdle /\ GitIdle /\ ListIdle /\ ProcIdle /\ ExtIdle
  /\ toolPc = "call"
  /\ toolIn \in {[name |-> c.name, input |-> c.input, git |-> c.git,
                  ctx |-> Ctx(tier, c.allowGit)] :
                   c \in ToolCallInputs, tier \in Tiers}
  /\ toolOut = NoToolResult

ExecuteToolCall ==
  /\ toolPc = "call"
  /\ toolPc' = "done"
  /\ toolOut' = executeTool(toolIn.name, toolIn.input, toolIn.ctx, toolIn.git)
  /\ UNCHANGED <<toolIn, pathVars, cmdVars, daemonVars, auxVars>>

SpecTools == ToolInit /\ [][ExecuteToolCall]_vars

(***************************************************************************)
(* Claims about the tool layer (SpecTools).                                *)
(***************************************************************************)
NoEffect(out) ==
  out.written = {} /\ out.spawned = NoSpawn /\ ~out.repoChanged

\* C3: the implementation of a tool runs exactly when the workspace tier is
\* at least the tool's tier under read < write < exec, and a call with too
\* low a tier is an error that has had no effect.
C3_TierGate ==
  (toolPc = "done" /\ toolIn.name \in ToolNames) =>
    /\ toolOut.invoked <=>
         tierPriority[toolIn.ctx.workspace.tier]
           >= tierPriority[toolDefOf(toolIn.name).tier]
    /\ ~toolOut.invoked => toolOut.out.isError /\ NoEffect(toolOut.out)

\* cmd.run of an allowed command on a write-tier workspace was turned away
\* by the dispatcher.
C3_Witness ==
  /\ toolPc = "done"
  /\ toolIn.name = "cmd.run"
  /\ toolIn.input.command = <<"l","s">>
  /\ toolIn.ctx.workspace.tier = "write"
  /\ ~toolOut.invoked
  /\ toolOut.out.code = "FORBIDDEN_PATH"

ExtractedPaths == extractPathsFromPatch(toolIn.input.patchUnified)

Accepted(p) == validatePath(p, toolIn.ctx.workspace, toolIn.ctx.config).valid

\* C8: when validatePath rejects one of the paths extracted from the patch,
\* fs.apply_patch fails and has written no file.
C8_PatchRejectedBeforeWrite ==
  (/\ toolPc = "done"
   /\ toolIn.name = "fs.apply_patch"
   /\ \E i \in DOMAIN ExtractedPaths : ~Accepted(ExtractedPaths[i])) =>
    toolOut.out.isError /\ toolOut.out.written = {}

\* A patch for an allowed file and a denied file, handed to a git that
\* applies, failed with the denied path's error and wrote nothing.
C8_Witness ==
  /\ toolPc = "done"
  /\ toolIn.name = "fs.apply_patch"
  /\ toolOut.invoked
  /\ ~toolIn.input.dryRun
  /\ toolIn.git = "applies"
  /\ \E i \in DOMAIN ExtractedPaths : Accepted(ExtractedPaths[i])
  /\ \E i \in DOMAIN ExtractedPaths : ~Accepted(ExtractedPaths[i])
  /\ toolOut.out.code = "FORBIDDEN_PATH"
  /\ toolOut.out.written = {}

CmdRunParsed == parseCommand(toolIn.input.command)

CmdRunPreChecksPass ==
  /\ toolIn.ctx.workspace.tier = "exec"
  /\ validateCommand(CmdRunParsed.command, CmdRunParsed.args \o toolIn.input.args,
                     toolIn.ctx.config.commands).allowed
  /\ Len(toolIn.input.cwd) > 0 => Accepted(toolIn.input.cwd)

\* C20: cmd.run spawns a child process only after its pre-checks have
\* passed: when the tier check fails, validateCommand denies the command
\* or validatePath rejects the requested cwd, the call returns an error
\* and no child process has been spawned.
C20_SpawnOnlyAfterPreChecks ==
  (/\ toolPc = "done"
   /\ toolIn.name = "cmd.run"
   /\ ~CmdRunPreChecksPass) =>
    toolOut.out.isError /\ toolOut.out.spawned = NoSpawn

\* On an exec-tier workspace an allowed command with a working directory
\* outside the workspace was refused and nothing was spawned.
C20_Witness ==
  /\ toolPc = "done"
  /\ toolIn.name = "cmd.run"
  /\ toolIn.ctx.workspace.tier = "exec"
  /\ toolIn.input.command = <<"l","s">>
  /\ toolIn.input.cwd = <<".",".","/","x">>
  /\ toolOut.invoked
  /\ toolOut.out.code = "FORBIDDEN_PATH"
  /\ toolOut.out.spawned = NoSpawn

\* On an exec-tier workspace an allowed command passed its pre-checks and
\* its child process was spawned.
CmdRunSpawns ==
  /\ toolPc = "done"
  /\ toolIn.name = "cmd.run"
  /\ CmdRunPreChecksPass
  /\ toolOut.out.spawned # NoSpawn

\* The session's configuration requires approval for the call at hand;
\* the type of the approval it would need.
ApprovalRequiredFor(name, input, config) ==
  \/ name = "fs.apply_patch" /\ ~input.dryRun /\ config.approvals.requireWriteApproval
  \/ name = "cmd.run" /\ config.approvals.requireExecApproval

ApprovalTypeFor(name) == IF name = "cmd.run" THEN "exec" ELSE "patch"

SideEffectOf(out) == out.written # {} \/ out.spawned # NoSpawn

\* C17: when the configuration requires approval for the operation, its
\* side effect (bytes written, child process spawned) does not occur before
\* a pending approval request for the operation has been created.
C17_ApprovalBeforeSideEffect ==
  (/\ toolPc = "done"
   /\ ApprovalRequiredFor(toolIn.name, toolIn.input, toolIn.ctx.config)
   /\ SideEffectOf(toolOut.out)) =>
    \E id \in DOMAIN pendingApprovals :
       pendingApprovals[id].type = ApprovalTypeFor(toolIn.name)

\* What the tools do hold to: a dry run of a patch writes nothing.
DryRunWritesNothing ==
  (toolPc = "done" /\ toolIn.name = "fs.apply_patch" /\ toolIn.input.dryRun) =>
    toolOut.out.written = {}
(***************************************************************************)
(* Spec: the daemon serving up to MaxClients sockets.                      *)
(***************************************************************************)
\* The daemon serves a workspace of the write tier.
Init ==
  /\ DaemonConstructed("write")
  /\ PathIdle /\ CmdIdle /\ ToolIdle
  /\ PatchIdle /\ GitIdle /\ ListIdle /\ ProcIdle /\ ExtIdle

restVars == <<pathVars, cmdVars, toolVars, approvalVars, auxVars>>
otherVars == <<restVars, sendFailed>>

\* ws.send: the frame goes on the wire of a socket that is open and is
\* dropped otherwise.
Send(wr, st, ws, frame) ==
  IF frame.type # "none" /\ st[ws] = "open"
  THEN [wr EXCEPT ![ws] = Append(@, frame)]
  ELSE wr

\* broadcastEvent: every client in the map with the flag set has its
\* eventSeq incremented and is sent the event.
BroadcastTo(cs, cl) == {w \in cs : cl[w].authenticated}

\* Variant: the counter of a session is left alone by a broadcast.
BroadcastSeq_noIncrement(cs, cl) == cl

BroadcastSeq(cs, cl) ==
  [w \in Sockets |-> IF w \in BroadcastTo(cs, cl)
                     THEN [cl[w] EXCEPT !.eventSeq = @ + 1] ELSE cl[w]]

BroadcastWire(wr, st, cs, cl, event, phase, toolCallId) ==
  [w \in Sockets |->
     IF w \in BroadcastTo(cs, cl) /\ st[w] = "open"
     THEN Append(wr[w], EventFrame(event, phase, toolCallId, cl[w].eventSeq + 1))
     ELSE wr[w]]

\* Variant: a send that throws ends the broadcast, so the sessions after
\* the failing one are not sent the event.
BroadcastWireFailing_stopAtFailure(wr, st, cs, cl, failing, event, phase, toolCallId) ==
  [w \in Sockets |->
     IF w \in BroadcastTo(cs, cl) /\ st[w] = "open" /\ \A f \in failing : w < f
     THEN Append(wr[w], EventFrame(event, phase, toolCallId, cl[w].eventSeq + 1))
     ELSE wr[w]]

\* broadcastEvent when ws.send throws for the sessions in `failing`: the
\* error is logged and the loop goes on to the next session.
BroadcastWireFailing(wr, st, cs, cl, failing, event, phase, toolCallId) ==
  [w \in Sockets |->
     IF w \in BroadcastTo(cs, cl) /\ st[w] = "open" /\ w \notin failing
     THEN Append(wr[w], EventFrame(event, phase, toolCallId, cl[w].eventSeq + 1))
     ELSE wr[w]]

\* The seq of the frames whose send threw, per session.
BroadcastFailed(sf, cl, failing) ==
  [w \in Sockets |-> IF w \in failing THEN sf[w] \cup {cl[w].eventSeq + 1} ELSE sf[w]]

\* start(): the server listens and the heartbeat timer is armed.
Start ==
  /\ ~running /\ ~crashed
  /\ running' = TRUE
  /\ UNCHANGED <<crashed, ctx, toolAnswers, wsState, clients, client, wire, inflight, callLog, auditLog,
                 fsWritten, spawned, toolRuns, handled, ticks, last, otherVars>>

\* stop(): every client is closed with 1001 and the map is cleared.
Stop ==
  /\ running /\ ~crashed
  /\ running' = FALSE
  /\ wsState' = [w \in Sockets |-> IF w \in clients /\ wsState[w] = "open"
                                   THEN "closing" ELSE wsState[w]]
  /\ clients' = {}
  /\ UNCHANGED <<crashed, ctx, toolAnswers, client, wire, inflight, callLog, auditLog, fsWritten, spawned,
                 toolRuns, handled, ticks, last, otherVars>>

\* handleConnection: a new socket gets a fresh record with the flag false.
Connection(ws) ==
  /\ running /\ ~crashed
  /\ wsState[ws] = "unused"
  /\ \A w \in Sockets : w < ws => wsState[w] # "unused"
  /\ wsState' = [wsState EXCEPT ![ws] = "open"]
  /\ clients' = clients \cup {ws}
  /\ client' = [client EXCEPT ![ws] = NewClient]
  /\ UNCHANGED <<running, crashed, ctx, toolAnswers, wire, inflight, callLog, auditLog, fsWritten, spawned,
                 toolRuns, handled, ticks, last, otherVars>>

\* The process dies of the unhandled rejection: every socket is gone.
Dies ==
  /\ crashed' = TRUE
  /\ running' = FALSE
  /\ wsState' = [w \in Sockets |-> IF wsState[w] \in {"open", "closing"}
                                   THEN "closed" ELSE wsState[w]]
  /\ clients' = {}
  /\ inflight' = <<>>
  /\ UNCHANGED <<client, wire, callLog, auditLog, fsWritten, spawned, toolRuns>>

\* Variant: the entry takes the place of the last entry of the buffer.
addAuditEntry_overwriteLast(log, entry) ==
  IF Len(log) = 0 THEN <<entry>> ELSE [log EXCEPT ![Len(log)] = entry]

\* addAuditEntry: the entry is pushed at the end of ctx.auditLog.
addAuditEntry(log, entry) == Append(log, entry)

\* One thing handleToolsCall did for the call with this toolCallId.
CallEntry(kind, toolCallId) == [kind |-> kind, toolCallId |-> toolCallId]

\* The response handleToolsCall sends for a call whose tool has settled.
CallResponse(c) ==
  IF c.isError THEN ErrorResponse(c.id, c.code)
  ELSE ResponseFrame(c.id, TRUE, "", "result")

\* Variant: the response is sent before the result event is broadcast.
FinishWire_responseFirst(wr, st, cs, cl, c) ==
  BroadcastWire(Send(wr, st, c.ws, CallResponse(c)), st, cs, cl,
                "tool", "result", c.toolCallId)

\* The end of handleToolsCall on the wires: the result event is broadcast,
\* then the response is sent to the caller.
FinishWire(wr, st, cs, cl, c) ==
  Send(BroadcastWire(wr, st, cs, cl, "tool", "result", c.toolCallId),
       st, c.ws, CallResponse(c))

\* The end of handleToolsCall in program order.
FinishLog(toolCallId) ==
  <<CallEntry("audit", toolCallId), CallEntry("result", toolCallId),
    CallEntry("response", toolCallId)>>

\* The audit entry of a call; `session` is the socket the call came in
\* on, which the entry itself does not carry.
AuditOf(c) ==
  [type |-> "tool_call", tool |-> c.name, isError |-> c.isError,
   toolCallId |-> c.toolCallId, session |-> c.ws]

\* The tool reaches an await on I/O (fs.stat, exec, spawn): other handlers
\* run before handleToolsCall continues.  fs.apply_patch runs git with
\* execSync, and a tool that fails a check or throws has not awaited
\* anything: executeTool has then settled when it returns, and
\* handleToolsCall continues before any other handler runs.
AwaitsIO(call, result) ==
  /\ call.name # "fs.apply_patch"
  /\ result.invoked /\ ~result.threw /\ ~result.out.isError

\* handleToolsCall up to `await executeTool`: the start event is broadcast;
\* a call whose tool awaits I/O then waits, any other call runs to its end.
ToolsCallStart(ws, frame) ==
  LET key == frame.params.tool
      call == DaemonToolCall(key)
      toolCallId == IF frame.params.callId # 0
                    THEN [src |-> "client", n |-> frame.params.callId]
                    ELSE [src |-> "uuid", n |-> handled + 1]
      c0 == [ws |-> ws, id |-> frame.id, name |-> call.name, key |-> key,
             toolCallId |-> toolCallId, phase |-> "started",
             isError |-> FALSE, code |-> ""]
      client1 == BroadcastSeq(clients, client)
      wire1 == BroadcastWire(wire, wsState, clients, client,
                             "tool", "start", toolCallId)
  IN  \E git \in GitApplyBehaviours :
        LET result == toolAnswers[key][git]
            c == [c0 EXCEPT !.phase = "settled",
                            !.isError = result.out.isError,
                            !.code = result.out.code]
        IN  /\ git # "applies" => call.name = "fs.apply_patch"
            /\ IF AwaitsIO(call, result)
               THEN /\ client' = client1
                    /\ wire' = wire1
                    /\ callLog' = Append(callLog, CallEntry("start", toolCallId))
                    /\ inflight' = Append(inflight, c0)
                    /\ UNCHANGED <<running, crashed, wsState, clients, auditLog,
                                   fsWritten, spawned, toolRuns>>
               ELSE /\ client' = BroadcastSeq(clients, client1)
                    /\ wire' = FinishWire(wire1, wsState, clients, client1, c)
                    /\ toolRuns' = IF result.invoked THEN toolRuns + 1 ELSE toolRuns
                    /\ fsWritten' = fsWritten \cup result.out.written
                    /\ spawned' = spawned \o result.out.spawned
                    /\ auditLog' = addAuditEntry(auditLog, AuditOf(c))
                    /\ callLog' = callLog \o <<CallEntry("start", toolCallId),
                                               CallEntry("executed", toolCallId)>>
                                          \o FinishLog(toolCallId)
                    /\ UNCHANGED <<running, crashed, wsState, clients, inflight>>

\* ws.on("message"): handleMessage on one frame, up to its first await.
OnMessage(ws, frame) ==
  /\ ~crashed
  /\ wsState[ws] \in {"open", "closing"}
  /\ handled' = handled + 1
  /\ LET h == handleMessage(client[ws].authenticated, frame)
     IN  \E outcome \in {"returns", "ignored", "dies"} :
           /\ outcome = "returns" <=> ~h.throws
           /\ last' = [ws |-> ws, frame |-> frame,
                       authBefore |-> client[ws].authenticated,
                       reply |-> h.reply,
                       delivered |-> h.reply.type # "none" /\ wsState[ws] = "open",
                       outcome |-> outcome]
           /\ IF outcome = "dies" THEN Dies
              ELSE IF outcome = "ignored"
              THEN UNCHANGED <<running, crashed, wsState, clients, client, wire,
                               inflight, callLog, auditLog, fsWritten, spawned,
                               toolRuns>>
              ELSE IF h.startsTool THEN ToolsCallStart(ws, frame)
              ELSE /\ client' = [client EXCEPT
                        ![ws].authenticated = h.authenticated,
                        ![ws].clientName = IF h.authenticated /\ frame.method = "connect"
                                           THEN frame.params.clientName ELSE @]
                   /\ wsState' = IF h.closes /\ wsState[ws] = "open"
                                 THEN [wsState EXCEPT ![ws] = "closing"] ELSE wsState
                   /\ UNCHANGED <<running, crashed, clients, wire, inflight,
                                  callLog, auditLog, fsWritten, spawned, toolRuns>>
  /\ UNCHANGED <<ctx, toolAnswers, ticks, otherVars>>

\* One of the MaxMessages messages of a run.
HandleMessage(ws, frame) ==
  /\ handled < MaxMessages
  /\ OnMessage(ws, frame)

\* A client sends a message of more than MAX_PAYLOAD_BYTES bytes: the
\* receiver refuses it and closes the socket; the "message" handler, and
\* with it the size check, runs only for a message the receiver delivers.
LargeMessage(ws, m) ==
  /\ ~crashed
  /\ wsState[ws] \in {"open", "closing"}
  /\ handled < MaxMessages
  /\ handled' = handled + 1
  /\ LET reply == IF receiverDelivers(m) THEN payloadCheck(m) ELSE NoFrameSent
     IN  /\ last' = [ws |-> ws, frame |-> OversizedFrame,
                     authBefore |-> client[ws].authenticated,
                     reply |-> reply,
                     delivered |-> reply.type # "none" /\ wsState[ws] = "open",
                     outcome |-> IF receiverDelivers(m) THEN "returns" ELSE "refused"]
         /\ wsState' = IF ~receiverDelivers(m) /\ wsState[ws] = "open"
                       THEN [wsState EXCEPT ![ws] = "closing"] ELSE wsState
  /\ UNCHANGED <<running, crashed, ctx, toolAnswers, clients, client, wire, inflight,
                 callLog, auditLog, fsWritten, spawned, toolRuns, ticks, otherVars>>

\* `await executeTool` of a waiting call: the tool does its work and
\* settles.
ToolRuns(i) ==
  /\ ~crashed
  /\ i \in DOMAIN inflight
  /\ inflight[i].phase = "started"
  /\ LET c == inflight[i]
         result == toolAnswers[c.key]["applies"]
     IN  /\ toolRuns' = IF result.invoked THEN toolRuns + 1 ELSE toolRuns
         /\ fsWritten' = fsWritten \cup result.out.written
         /\ spawned' = spawned \o result.out.spawned
         /\ inflight' = [inflight EXCEPT ![i].phase = "settled",
                                         ![i].isError = result.out.isError,
                                         ![i].code = result.out.code]
         /\ callLog' = Append(callLog, CallEntry("executed", c.toolCallId))
  /\ UNCHANGED <<running, crashed, ctx, toolAnswers, wsState, clients, client, wire,
                 auditLog, handled, ticks, last, otherVars>>

\* handleToolsCall after the await: the audit entry, the result event and
\* the response, for any one of the calls whose tool has settled.
ToolsCallFinish(i) ==
  /\ ~crashed
  /\ i \in DOMAIN inflight
  /\ inflight[i].phase = "settled"
  /\ LET c == inflight[i]
     IN  /\ auditLog' = addAuditEntry(auditLog, AuditOf(c))
         /\ client' = BroadcastSeq(clients, client)
         /\ wire' = FinishWire(wire, wsState, clients, client, c)
         /\ callLog' = callLog \o FinishLog(c.toolCallId)
         /\ inflight' = SubSeq(inflight, 1, i - 1) \o SubSeq(inflight, i + 1, Len(inflight))
  /\ UNCHANGED <<running, crashed, ctx, toolAnswers, wsState, clients, fsWritten, spawned, toolRuns,
                 handled, ticks, last, otherVars>>

\* The heartbeat timer fires.
Tick ==
  /\ running /\ ~crashed
  /\ ticks < MaxTicks
  /\ ticks' = ticks + 1
  /\ \E failing \in SUBSET {w \in BroadcastTo(clients, client) : wsState[w] = "open"} :
       /\ client' = BroadcastSeq(clients, client)
       /\ wire' = BroadcastWireFailing(wire, wsState, clients, client, failing,
                                       "tick", "", NoCallId)
       /\ sendFailed' = BroadcastFailed(sendFailed, client, failing)
  /\ UNCHANGED <<running, crashed, ctx, toolAnswers, wsState, clients, inflight, callLog, auditLog, fsWritten,
                 spawned, toolRuns, handled, last, restVars>>

\* ws.on("close"): the socket has closed, its entry leaves the map.
Close(ws) ==
  /\ ~crashed
  /\ wsState[ws] \in {"open", "closing"}
  /\ wsState' = [wsState EXCEPT ![ws] = "closed"]
  /\ clients' = clients \ {ws}
  /\ UNCHANGED <<running, crashed, ctx, toolAnswers, client, wire, inflight, callLog, auditLog, fsWritten,
                 spawned, toolRuns, handled, ticks, last, otherVars>>

Next ==
  \/ Start
  \/ Stop
  \/ \E ws \in Sockets : Connection(ws)
  \/ \E ws \in Sockets : \E frame \in DaemonFrames : HandleMessage(ws, frame)
  \/ \E ws \in Sockets : \E m \in LargeMessages : LargeMessage(ws, m)
  \/ \E i \in 1..MaxMessages : ToolRuns(i)
  \/ \E i \in 1..MaxMessages : ToolsCallFinish(i)
  \/ Tick
  \/ \E ws \in Sockets : Close(ws)

Spec == Init /\ [][Next]_vars

(***************************************************************************)
(* Claims about the daemon's sessions (Spec).                              *)
(***************************************************************************)
\* A request frame: an object of type "req" with a method and an id that
\* is a string or a number.
IsRequest(frame) ==
  /\ frame.json = "object"
  /\ frame.type = "req"
  /\ frame.method # ""
  /\ frame.id.t \in {"string", "number"}

\* This step handles a request other than connect on a session whose flag
\* is false.
UnauthenticatedRequestStep ==
  /\ handled' = handled + 1
  /\ ~last'.authBefore
  /\ IsRequest(last'.frame)
  /\ last'.frame.method # "connect"

\* This step runs no tool, sends no event and appends no audit entry.
InertStep ==
  /\ UNCHANGED <<toolRuns, fsWritten, spawned, inflight, auditLog, wire>>
  /\ \A w \in Sockets : client'[w].eventSeq = client[w].eventSeq

\* C2: on a session whose authenticated flag is false, every request whose
\* method is not connect is answered with UNAUTHORIZED and runs no tool,
\* emits no event and appends no audit entry.
C2_UnauthenticatedRequestsRefused ==
  [][UnauthenticatedRequestStep =>
       /\ last'.reply.type = "res"
       /\ last'.reply.code = "UNAUTHORIZED"
       /\ InertStep]_vars

\* The part of C2 about effects alone: such a request runs no tool, emits
\* no event and appends no audit entry, whatever it is answered with.
UnauthenticatedRequestsInert ==
  [][UnauthenticatedRequestStep => InertStep]_vars

\* C10: the authenticated flag of a session starts false, becomes true only
\* by a connect request on that session, and once true stays true, also
\* after a later connect request with a wrong token.
C10_AuthenticatedOnceAndForAll ==
  [][\A w \in Sockets :
       /\ (wsState[w] = "unused" /\ wsState'[w] # "unused")
            => ~client'[w].authenticated
       /\ (~client[w].authenticated /\ client'[w].authenticated)
            => /\ handled' = handled + 1
               /\ last'.ws = w
               /\ last'.frame.method = "connect"
               /\ ~last'.authBefore
       /\ (wsState[w] # "unused" /\ client[w].authenticated)
            => client'[w].authenticated]_vars

\* An authenticated session has just been answered AUTH_FAILED for a
\* connect request with a wrong token, and its flag is still true.
C10_Witness ==
  /\ last.ws \in Sockets
  /\ last.authBefore
  /\ last.frame.method = "connect"
  /\ last.reply.code = "AUTH_FAILED"
  /\ client[last.ws].authenticated


\* This step handles a connect request whose token is not the daemon's.
WrongTokenConnectStep ==
  /\ handled' = handled + 1
  /\ IsRequest(last'.frame)
  /\ last'.frame.method = "connect"
  /\ last'.frame.params.token # TokStr(authToken)

\* C11: every connect request whose token does not equal the daemon's
\* token is answered with AUTH_FAILED, the connection is then closed, and
\* the session's authenticated flag is not set to true.
C11_WrongTokenRefusedAndClosed ==
  [][WrongTokenConnectStep =>
       /\ last'.reply.type = "res"
       /\ last'.reply.code = "AUTH_FAILED"
       /\ wsState'[last'.ws] # "open"
       /\ ~last'.authBefore => ~client'[last'.ws].authenticated]_vars

\* The part of C11 about the flag alone: a connect request with a wrong
\* token never sets the flag.
WrongTokenNeverAuthenticates ==
  [][WrongTokenConnectStep =>
       (~last'.authBefore => ~client'[last'.ws].authenticated)]_vars

(***************************************************************************)
(* Claims about events, tool calls and the audit buffer (Spec).            *)
(***************************************************************************)
\* The events sent to a session, in send order.
EventsSentTo(w) == SelectSeq(wire[w], LAMBDA f : f.type = "event")

\* C12: on any one session the seq values of the events sent to it are
\* strictly increasing in send order, whatever the interleaving of
\* tools.call requests and heartbeat broadcasts.
C12_EventSeqStrictlyIncreasing ==
  \A w \in Sockets :
    \A i, j \in 1..Len(EventsSentTo(w)) :
      i < j => EventsSentTo(w)[i].seq < EventsSentTo(w)[j].seq

\* A session has been sent the start events of two calls that are both
\* still waiting for their tools, and a heartbeat between the two.
C12_Witness ==
  /\ Len(inflight) = 2
  /\ \E w \in Sockets :
       \E i, j, k \in 1..Len(EventsSentTo(w)) :
         /\ i < j /\ j < k
         /\ EventsSentTo(w)[i].phase = "start"
         /\ EventsSentTo(w)[j].event = "tick"
         /\ EventsSentTo(w)[k].phase = "start"
         /\ EventsSentTo(w)[k].toolCallId # EventsSentTo(w)[i].toolCallId

\* In a call log, an entry of this kind for this call comes before
\* position k.
Earlier(log, kind, toolCallId, k) ==
  \E j \in 1..(k - 1) : log[j] = CallEntry(kind, toolCallId)

\* C13: for every tools.call the start event is sent before the tool runs
\* and before any of its side effects, the result event is sent only after
\* the tool has settled, and the response is sent only after that result
\* event (on the caller's wire, right after it).
C13_StartToolResultResponseOrder ==
  [][/\ \A k \in DOMAIN callLog' :
          LET e == callLog'[k]
          IN  /\ e.kind = "executed" => Earlier(callLog', "start", e.toolCallId, k)
              /\ e.kind = "result" => Earlier(callLog', "executed", e.toolCallId, k)
              /\ e.kind = "response" => Earlier(callLog', "result", e.toolCallId, k)
     /\ (toolRuns' # toolRuns \/ fsWritten' # fsWritten \/ spawned' # spawned)
          => \E k \in (Len(callLog) + 1)..Len(callLog') :
               /\ callLog'[k].kind = "executed"
               /\ Earlier(callLog', "start", callLog'[k].toolCallId, k)
     /\ \A w \in Sockets : \A k \in DOMAIN wire'[w] :
          wire'[w][k].type = "res"
            => /\ k > 1
               /\ wire'[w][k - 1].type = "event"
               /\ wire'[w][k - 1].phase = "result"]_vars

\* A call whose tool wrote a file has been answered: its start event, its
\* result event and its response are on the caller's wire.
C13_Witness ==
  /\ fsWritten # {}
  /\ \E w \in Sockets : \E i, j, k \in DOMAIN wire[w] :
       /\ i < j /\ j < k
       /\ wire[w][i].phase = "start"
       /\ wire[w][j].phase = "result"
       /\ wire[w][j].toolCallId = wire[w][i].toolCallId
       /\ wire[w][k].type = "res" /\ wire[w][k].ok

\* The calls that reached executeTool, by toolCallId, how often the log
\* has an entry of a kind for one of them, and the calls that still wait.
CalledIds == {callLog[k].toolCallId : k \in DOMAIN callLog}

CountOf(kind, toolCallId) ==
  Cardinality({k \in DOMAIN callLog : callLog[k] = CallEntry(kind, toolCallId)})

Waiting(toolCallId) ==
  \E i \in DOMAIN inflight : inflight[i].toolCallId = toolCallId

\* No call has more than one start or result event, and a result event
\* comes after the start event of its call.
EventPairsWellFormed ==
  \A id \in CalledIds :
    /\ CountOf("start", id) = 1
    /\ CountOf("result", id) <= 1
    /\ \A k \in DOMAIN callLog :
         callLog[k] = CallEntry("result", id) => Earlier(callLog, "start", id, k)

\* C14: every tools.call that reaches the tool layer produces exactly one
\* start event and exactly one result event with its toolCallId (the
\* result once the call no longer waits for its tool), and no result event
\* comes without an earlier start event of the same toolCallId.
C14_OneStartOneResultPerCall ==
  /\ EventPairsWellFormed
  /\ \A id \in CalledIds : Waiting(id) \/ CountOf("result", id) = 1

\* No call has more than one audit entry, the buffer holds the entries the
\* log tells of, and the response of a call comes after its audit entry.
AuditEntriesWellFormed ==
  \A id \in CalledIds :
    /\ CountOf("audit", id) <= 1
    /\ Cardinality({k \in DOMAIN auditLog :
                      auditLog[k].type = "tool_call" /\ auditLog[k].toolCallId = id})
         = CountOf("audit", id)
    /\ \A k \in DOMAIN callLog :
         callLog[k] = CallEntry("response", id) => Earlier(callLog, "audit", id, k)

\* C15: every tools.call that executes a tool appends exactly one
\* tool_call audit entry (once the call no longer waits for its tool), and
\* the entry is appended before the response of the call is sent.
C15_OneAuditEntryBeforeResponse ==
  /\ AuditEntriesWellFormed
  /\ \A id \in CalledIds :
       CountOf("executed", id) = 1 => (Waiting(id) \/ CountOf("audit", id) = 1)

\* C16: the audit buffer is append-only: at every step the earlier
\* contents are an unchanged prefix of the later contents.
C16_AuditBufferAppendOnly ==
  [][/\ Len(auditLog') >= Len(auditLog)
     /\ SubSeq(auditLog', 1, Len(auditLog)) = auditLog]_vars

\* The buffer holds the entries of two calls.
C16_Witness ==
  /\ Len(auditLog) >= 2
  /\ auditLog[1].toolCallId # auditLog[2].toolCallId

(***************************************************************************)
(* SpecApproval: approvals created, asked, answered and timed out on one   *)
(* RunContext, and the tool calls they describe.                           *)
(***************************************************************************)
daemonCore == <<running, crashed, ctx, toolAnswers, wsState, clients, client, wire,
                inflight, callLog, toolRuns, handled, ticks, last, sendFailed>>

ApprovalInit ==
  /\ PathIdle /\ CmdIdle /\ ToolIdle
  /\ PatchIdle /\ GitIdle /\ ListIdle /\ ProcIdle /\ ExtIdle
  /\ \E patterns \in AutoApproveChoices : DaemonConstructedOn(ApprovalCtx(patterns))

\* A promise that has resolved keeps its value.
resolveWith(call, result) ==
  IF call.state = "resolved" THEN call
  ELSE [call EXCEPT !.state = "resolved", !.result = result]

\* Variant: an answer resolves the call and leaves its timer armed.
answered_timerKept(call, kind, now) ==
  [resolveWith(call, answerResult(kind)) EXCEPT
     !.audited = Append(@, "user"),
     !.answeredDue = call.timerAt <= now]

\* The question callback of requestApproval on y, n or s: clearTimeout,
\* the audit entry, resolve.
answered(call, kind, now) ==
  [resolveWith(call, answerResult(kind)) EXCEPT
     !.timerAt = 0,
     !.audited = Append(@, "user"),
     !.answeredDue = call.timerAt <= now]

\* The timer callback of requestApproval: the audit entry, resolve.
timedOut(call) ==
  [resolveWith(call, ApprovalResult(FALSE, "timeout", "")) EXCEPT
     !.timerAt = 0,
     !.audited = Append(@, "timeout")]

\* createApprovalRequest(ctx, type, description, details).
CreateApprovalRequest(in) ==
  /\ Len(approvalsMade) < MaxApprovals
  /\ LET id == Len(approvalsMade) + 1
         r  == createApprovalRequest(pendingApprovals, id, clock, ctx.config,
                                     in.type, in.details)
     IN  /\ pendingApprovals' = r.table
         /\ approvalsMade' = Append(approvalsMade, r.approval)
  /\ UNCHANGED <<clock, approvalCall, approvalWaiting, gatedOp, auditLog, fsWritten,
                 spawned, daemonCore, pathVars, cmdVars, toolVars, auxVars>>

\* requestApproval(approval, ctx, logger) up to its promise: an approval
\* that matches the patterns resolves at once; for any other the question
\* is asked and the timer is armed.
RequestApproval(id) ==
  /\ id \in DOMAIN approvalsMade
  /\ approvalCall[id].state = "none"
  /\ IF shouldAutoApprove(approvalsMade[id], ctx.config)
     THEN /\ auditLog' = addAuditEntry(auditLog, ApprovalAudit(TRUE, "auto", ""))
          /\ approvalCall' = [approvalCall EXCEPT ![id] =
               [resolveWith(@, ApprovalResult(TRUE, "auto-approved by pattern", "auto"))
                  EXCEPT !.audited = Append(@, "auto")]]
          /\ UNCHANGED approvalWaiting
     ELSE /\ approvalCall' = [approvalCall EXCEPT ![id] =
               [@ EXCEPT !.state = "waiting",
                         !.timerAt = clock + ctx.config.approvals.approvalTimeoutMs]]
          /\ approvalWaiting' = Append(approvalWaiting, id)
          /\ UNCHANGED auditLog
  /\ UNCHANGED <<pendingApprovals, clock, approvalsMade, gatedOp, fsWritten, spawned,
                 daemonCore, pathVars, cmdVars, toolVars, auxVars>>

\* The audit entries of the questions a line answers, in asking order.
RECURSIVE AnswerAudits(_, _)
AnswerAudits(waiting, kind) ==
  IF waiting = <<>> THEN <<>>
  ELSE <<answerAudit(kind)>> \o AnswerAudits(Tail(waiting), kind)

RECURSIVE AppendAll(_, _)
AppendAll(log, entries) ==
  IF entries = <<>> THEN log
  ELSE AppendAll(addAuditEntry(log, Head(entries)), Tail(entries))

\* A line arrives on stdin: every open question receives it. y, n and s
\* resolve the question, clear its timer and delete the record; anything
\* else has the question asked again.
Answer(line) ==
  /\ approvalWaiting # <<>>
  /\ LET kind == answerKind(line)
         ids  == Range(approvalWaiting)
     IN  IF kind = "again"
         THEN UNCHANGED <<pendingApprovals, approvalCall, approvalWaiting, auditLog>>
         ELSE /\ auditLog' = AppendAll(auditLog, AnswerAudits(approvalWaiting, kind))
              /\ pendingApprovals' =
                   [i \in DOMAIN pendingApprovals \ ids |-> pendingApprovals[i]]
              /\ approvalCall' =
                   [i \in DOMAIN approvalCall |->
                      IF i \in ids THEN answered(approvalCall[i], kind, clock)
                      ELSE approvalCall[i]]
              /\ approvalWaiting' = <<>>
  /\ UNCHANGED <<clock, approvalsMade, gatedOp, fsWritten, spawned, daemonCore,
                 pathVars, cmdVars, toolVars, auxVars>>

\* The timers that are armed and due; timers of one delay fire in the
\* order they were set, so among the open questions the oldest is first.
DueTimers ==
  {id \in 1..MaxApprovals :
     approvalCall[id].timerAt > 0 /\ approvalCall[id].timerAt <= clock}

Timeout ==
  \E id \in DueTimers :
     /\ (approvalWaiting # <<>> /\ Head(approvalWaiting) \in DueTimers)
           => id = Head(approvalWaiting)
     /\ auditLog' = addAuditEntry(auditLog, ApprovalAudit(FALSE, "", "timeout"))
     /\ pendingApprovals' = MapDelete(pendingApprovals, id)
     /\ approvalCall' = [approvalCall EXCEPT ![id] = timedOut(@)]
     /\ approvalWaiting' = SelectSeq(approvalWaiting, LAMBDA i : i # id)
     /\ UNCHANGED <<clock, approvalsMade, gatedOp, fsWritten, spawned, daemonCore,
                    pathVars, cmdVars, toolVars, auxVars>>

\* Time passes; a timer that is due fires before time passes further.
Advance ==
  /\ DueTimers = {}
  /\ clock < MaxClockSteps * ClockStep
  /\ clock' = clock + ClockStep
  /\ UNCHANGED <<pendingApprovals, approvalsMade, approvalCall, approvalWaiting, gatedOp,
                 auditLog, fsWritten, spawned, daemonCore, pathVars, cmdVars, toolVars, auxVars>>

\* How requestApproval stands on an approval.
ResolutionOf(id) ==
  IF approvalCall[id].state # "resolved" THEN approvalCall[id].state
  ELSE IF approvalCall[id].result.approved THEN "approved"
  ELSE approvalCall[id].result.reason

\* executeTool on the call an approval describes.  The tools consult
\* neither the table nor the outcome of requestApproval.
ExecuteGated(id) ==
  /\ id \in DOMAIN approvalsMade
  /\ ~gatedOp[id].ran
  /\ \E git \in GitApplyBehaviours :
       /\ git # "applies" => approvalsMade[id].type = "patch"
       /\ LET r == toolAnswers[GatedKey(approvalsMade[id])][git]
          IN  /\ gatedOp' = [gatedOp EXCEPT ![id] =
                   [ran |-> TRUE, resolvedBefore |-> ResolutionOf(id), out |-> r.out]]
              /\ fsWritten' = fsWritten \cup r.out.written
              /\ spawned' = spawned \o r.out.spawned
  /\ UNCHANGED <<pendingApprovals, clock, approvalsMade, approvalCall, approvalWaiting,
                 auditLog, daemonCore, pathVars, cmdVars, toolVars, auxVars>>

ApprovalNext ==
  \/ \E in \in ApprovalInputs : CreateApprovalRequest(in)
  \/ \E id \in 1..MaxApprovals : RequestApproval(id)
  \/ \E line \in AnswerLines : Answer(line)
  \/ Timeout
  \/ Advance
  \/ \E id \in 1..MaxApprovals : ExecuteGated(id)

SpecApproval == ApprovalInit /\ [][ApprovalNext]_vars

\* An approval whose requestApproval has resolved.
Resolved(id) == approvalCall[id].state = "resolved"

\* C18: a pending approval is in the table exactly from its creation until
\* requestApproval on it has resolved, by approval, denial, auto-approval
\* or timeout: afterwards its id is no longer in the table.
C18_InTableUntilResolved ==
  \A id \in DOMAIN approvalsMade :
     (id \in DOMAIN pendingApprovals) <=> ~Resolved(id)

\* What requestApproval does hold to: an approval is in the table until it
\* resolves, and one resolved by an answer or by the timer is not.
RemovedUnlessAutoApproved ==
  \A id \in DOMAIN approvalsMade :
     /\ ~Resolved(id) => id \in DOMAIN pendingApprovals
     /\ (Resolved(id) /\ approvalCall[id].result.approvedBy # "auto") =>
          id \notin DOMAIN pendingApprovals

AutoApprovedStaysInTable ==
  \E id \in DOMAIN approvalsMade :
     /\ Resolved(id) /\ approvalCall[id].result.approvedBy = "auto"
     /\ id \in DOMAIN pendingApprovals

\* The timeoutAt of an approval has been crossed and no answer has
\* resolved it.
CrossedUnanswered(id) ==
  /\ isApprovalTimedOut(approvalsMade[id], clock)
  /\ approvalCall[id].state = "waiting" \/ ResolutionOf(id) = "timeout"

\* C19: when the timeoutAt of a pending approval is crossed without an
\* answer, the record is removed from the table, and the operation it
\* gates fails with APPROVAL_TIMEOUT without its side effect.
C19_TimeoutRemovesAndFails ==
  \A id \in DOMAIN approvalsMade :
     /\ CrossedUnanswered(id) => id \notin DOMAIN pendingApprovals
     /\ (gatedOp[id].ran /\ gatedOp[id].resolvedBefore = "timeout") =>
          /\ gatedOp[id].out.isError
          /\ gatedOp[id].out.code = "APPROVAL_TIMEOUT"
          /\ ~SideEffectOf(gatedOp[id].out)

\* The two halves of C19, each on its own.
C19_RecordRemovedAtTimeoutAt ==
  \A id \in DOMAIN approvalsMade :
     CrossedUnanswered(id) => id \notin DOMAIN pendingApprovals

C19_GatedOperationFails ==
  \A id \in DOMAIN approvalsMade :
     (gatedOp[id].ran /\ gatedOp[id].resolvedBefore = "timeout") =>
        gatedOp[id].out.code = "APPROVAL_TIMEOUT" /\ ~SideEffectOf(gatedOp[id].out)

\* What the timer does hold to: when it fires the record is removed and
\* requestApproval resolves with approved false and the reason timeout,
\* and it fires no earlier than approvalTimeoutMs after creation.
TimerRemovesRecord ==
  \A id \in DOMAIN approvalsMade :
     ResolutionOf(id) = "timeout" =>
        /\ id \notin DOMAIN pendingApprovals
        /\ ~approvalCall[id].result.approved
        /\ clock >= approvalsMade[id].createdAt + approvalTimeoutMs

\* C16 on the approval flow: requestApproval only appends to the buffer.
AuditAppendOnlyInApprovals ==
  [][/\ Len(auditLog') >= Len(auditLog)
     /\ SubSeq(auditLog', 1, Len(auditLog)) = auditLog]_vars

ApprovalAudited ==
  /\ Len(auditLog) = 2
  /\ auditLog[1].approvedBy = "auto"
  /\ auditLog[2].approvedBy = "user"

\* C39: each requestApproval call resolves once and appends one approval
\* audit entry, written by whoever resolved it, also when its timer is due
\* as the answer arrives: no call is audited both as timed out and as
\* answered.
ResolvedAndAuditedOnce ==
  /\ \A id \in 1..MaxApprovals :
       /\ ~Resolved(id) => approvalCall[id].audited = <<>>
       /\ Resolved(id) =>
            /\ Len(approvalCall[id].audited) = 1
            /\ approvalCall[id].audited[1] = "timeout" <=> ResolutionOf(id) = "timeout"
            /\ approvalCall[id].audited[1] = "auto"
                 <=> approvalCall[id].result.approvedBy = "auto"
  /\ Len(auditLog) = Cardinality({id \in 1..MaxApprovals : Resolved(id)})

\* An answer resolved a call whose timer was due and had not fired, and
\* time has passed since.
AnsweredWhenTimerDue ==
  \E id \in 1..MaxApprovals :
     /\ Resolved(id) /\ approvalCall[id].answeredDue
     /\ approvalCall[id].audited = <<"user">>
     /\ clock > approvalsMade[id].createdAt + approvalTimeoutMs


(***************************************************************************)
(* cmdRun's supervision of its child (tools/cmd.ts, the promise body):     *)
(* the output buffers, the deadline and the two signals.                   *)
(***************************************************************************)
MaxChunks == 3     \* "data" events of one child, over both streams

MAX_OUTPUT_SIZE == 1024 * 1024

\* Text whose stream data is known by its length only: a sequence of
\* pieces, each so many characters of stream data or a literal.
Data(n)  == [n |-> n, lit |-> <<>>, data |-> TRUE]
Lit(s)   == [n |-> Len(s), lit |-> s, data |-> FALSE]

RECURSIVE TextLen(_)
TextLen(t) == IF t = <<>> THEN 0 ELSE Head(t).n + TextLen(Tail(t))

\* t + piece
TextAdd(t, piece) ==
  IF piece.n = 0 THEN t
  ELSE IF t # <<>> /\ t[Len(t)].data /\ piece.data
  THEN [t EXCEPT ![Len(t)] = Data(@.n + piece.n)]
  ELSE Append(t, piece)

\* t.slice(0, k)
RECURSIVE TextSlice(_, _)
TextSlice(t, k) ==
  IF t = <<>> \/ k <= 0 THEN <<>>
  ELSE LET h == Head(t)
       IN  IF h.n <= k THEN <<h>> \o TextSlice(Tail(t), k - h.n)
           ELSE IF h.data THEN <<Data(k)>>
           ELSE <<Lit(SubSeq(h.lit, 1, k))>>

TRUNCATED == <<"\n","[","O","U","T","P","U","T"," ","T","R","U","N","C","A","T","E","D","]">>

TIMEOUT_NOTE == <<"\n","[","T","I","M","E","O","U","T"," ","a","f","t","e","r"," ","N","s","]">>

\* proc.stdout.on("data") and proc.stderr.on("data") on a chunk of n
\* characters: the new value of the buffer.
onData(buffer, n) ==
  IF TextLen(buffer) < MAX_OUTPUT_SIZE
  THEN LET added == TextAdd(buffer, Data(n))
       IN  IF TextLen(added) > MAX_OUTPUT_SIZE
           THEN TextAdd(TextSlice(added, MAX_OUTPUT_SIZE), Lit(TRUNCATED))
           ELSE added
  ELSE buffer

\* The exit code the close event reports: a number, or null when the
\* child was ended by a signal.
OsCode(n) == [none |-> FALSE, n |-> n]
NullCode  == [none |-> TRUE, n |-> 0]

\* code ?? d
nullish(code, d) == IF code.none THEN d ELSE code.n

NoRunResult ==
  [exitCode |-> 0, stdout |-> <<>>, stderr |-> <<>>, timedOut |-> FALSE]

\* Variant: the default is taken for every falsy code (code || 124).
onClose_orDefault(r, code) ==
  IF r.timedOut
  THEN [exitCode |-> IF code.none \/ code.n = 0 THEN 124 ELSE code.n,
        stdout |-> r.stdout,
        stderr |-> TextAdd(r.stderr, Lit(TIMEOUT_NOTE)), timedOut |-> TRUE]
  ELSE [exitCode |-> IF code.none THEN 0 ELSE code.n, stdout |-> r.stdout,
        stderr |-> r.stderr, timedOut |-> FALSE]

\* proc.on("close"): the CmdRunOutput the promise resolves with.
onClose(r, code) ==
  IF r.timedOut
  THEN [exitCode |-> nullish(code, 124), stdout |-> r.stdout,
        stderr |-> TextAdd(r.stderr, Lit(TIMEOUT_NOTE)), timedOut |-> TRUE]
  ELSE [exitCode |-> nullish(code, 0), stdout |-> r.stdout,
        stderr |-> r.stderr, timedOut |-> FALSE]

\* proc.on("error")
onError(r) ==
  [exitCode |-> 1, stdout |-> r.stdout, stderr |-> <<Lit(<<"s","p","a","w","n"," ","e","r","r","o","r">>)>>,
   timedOut |-> FALSE]

\* proc.kill(signal): the signal is sent and `killed` set while the
\* process exists; afterwards kill returns false and changes nothing.
kill(p, signal) ==
  IF p.alive THEN [p EXCEPT !.killed = TRUE, !.signals = Append(@, signal)]
  ELSE p

\* The child ends at once on a signal it does not handle.
Fatal(p) ==
  \/ \E i \in DOMAIN p.signals : p.signals[i] = "SIGKILL"
  \/ ~p.trapsTerm /\ \E i \in DOMAIN p.signals : p.signals[i] = "SIGTERM"

ChunkSizes == {1, MAX_OUTPUT_SIZE - 1, MAX_OUTPUT_SIZE}

ExitCodes == {0, 1}

\* The promise body has run: the child is spawned (or the spawn has
\* failed), the deadline timer is armed, the handlers are registered.
\* seenOut and seenErr count the characters the streams have delivered;
\* aliveAtDeadline and aliveAtKill record whether the child existed when
\* each timer fired.
ProcInit ==
  /\ PathIdle /\ CmdIdle /\ ToolIdle /\ DaemonIdle
  /\ PatchIdle /\ GitIdle /\ ListIdle /\ ExtIdle
  /\ \E trapsTerm \in BOOLEAN, spawnFailed \in BOOLEAN :
       proc = [spawnFailed |-> spawnFailed, alive |-> ~spawnFailed,
               trapsTerm |-> trapsTerm, exited |-> FALSE, code |-> NullCode,
               closed |-> FALSE, killed |-> FALSE, signals |-> <<>>]
  /\ run = [resolved |-> FALSE, result |-> NoRunResult,
            stdout |-> <<>>, stderr |-> <<>>, timedOut |-> FALSE,
            timeout |-> "armed", killTimer |-> "none",
            seenOut |-> 0, seenErr |-> 0, chunks |-> 0,
            aliveAtDeadline |-> FALSE, aliveAtKill |-> FALSE]
  /\ session = "open"

procOthers == <<pathVars, cmdVars, toolVars, daemonVars, patchVars, gitVars, listVars,
                extVars>>

\* A chunk arrives on stdout.
StdoutData(n) ==
  /\ ~proc.spawnFailed /\ ~proc.closed
  /\ run.chunks < MaxChunks
  /\ run' = [run EXCEPT !.stdout = onData(@, n), !.seenOut = @ + n,
                        !.chunks = @ + 1]
  /\ UNCHANGED <<proc, session, procOthers>>

\* A chunk arrives on stderr.
StderrData(n) ==
  /\ ~proc.spawnFailed /\ ~proc.closed
  /\ run.chunks < MaxChunks
  /\ run' = [run EXCEPT !.stderr = onData(@, n), !.seenErr = @ + n,
                        !.chunks = @ + 1]
  /\ UNCHANGED <<proc, session, procOthers>>

\* The deadline timer fires: timedOut is set, SIGTERM is sent and the
\* five-second timer is armed.
TimeoutFires ==
  /\ run.timeout = "armed"
  /\ ~proc.spawnFailed
  /\ run' = [run EXCEPT !.timeout = "fired", !.timedOut = TRUE,
                        !.killTimer = "armed", !.aliveAtDeadline = proc.alive]
  /\ proc' = kill(proc, "SIGTERM")
  /\ UNCHANGED <<session, procOthers>>

\* The five-second timer fires: SIGKILL is sent if proc.killed is false.
KillTimerFires ==
  /\ run.killTimer = "armed"
  /\ run' = [run EXCEPT !.killTimer = "fired", !.aliveAtKill = proc.alive]
  /\ proc' = IF ~proc.killed THEN kill(proc, "SIGKILL") ELSE proc
  /\ UNCHANGED <<session, procOthers>>

\* The child ends: of a signal, with no code, or by itself with a code.
ChildExits(code) ==
  /\ proc.alive
  /\ code.none <=> Fatal(proc)
  /\ proc' = [proc EXCEPT !.alive = FALSE, !.exited = TRUE, !.code = code]
  /\ UNCHANGED <<run, session, procOthers>>

\* proc.on("close"), after the child has ended and its streams have closed.
CloseEvent ==
  /\ proc.exited /\ ~proc.closed
  /\ proc' = [proc EXCEPT !.closed = TRUE]
  /\ run' = [run EXCEPT
       !.timeout = IF @ = "armed" THEN "cleared" ELSE @,
       !.resolved = TRUE,
       !.result = IF run.resolved THEN @ ELSE onClose(run, proc.code)]
  /\ UNCHANGED <<session, procOthers>>

\* proc.on("error"): the spawn has failed.
ErrorEvent ==
  /\ proc.spawnFailed /\ ~run.resolved
  /\ run' = [run EXCEPT
       !.timeout = IF @ = "armed" THEN "cleared" ELSE @,
       !.resolved = TRUE, !.result = onError(run)]
  /\ UNCHANGED <<proc, session, procOthers>>

\* ws.on("close") of the session that made the call: its entry leaves the
\* client map; nothing reaches the child or the timers.
ClientDisconnects ==
  /\ session = "open"
  /\ session' = "closed"
  /\ UNCHANGED <<run, proc, procOthers>>

ProcNext ==
  \/ \E n \in ChunkSizes : StdoutData(n)
  \/ \E n \in ChunkSizes : StderrData(n)
  \/ TimeoutFires
  \/ KillTimerFires
  \/ \E code \in {NullCode} \cup {OsCode(n) : n \in ExitCodes} : ChildExits(code)
  \/ CloseEvent
  \/ ErrorEvent
  \/ ClientDisconnects

SpecProc == ProcInit /\ [][ProcNext]_vars

SentSignal(p, signal) == \E i \in DOMAIN p.signals : p.signals[i] = signal

\* C21: a child still running at its deadline is sent SIGTERM, and a child
\* still alive five seconds after that is sent SIGKILL.
C21_SoftThenHardSignal ==
  /\ (run.timeout = "fired" /\ run.aliveAtDeadline) => SentSignal(proc, "SIGTERM")
  /\ (run.killTimer = "fired" /\ run.aliveAtKill) => SentSignal(proc, "SIGKILL")

\* What the supervisor does hold to: the soft signal at the deadline.
SoftSignalAtDeadline ==
  (run.timeout = "fired" /\ run.aliveAtDeadline) => SentSignal(proc, "SIGTERM")

\* The second signal is never sent to a child that received the first.
HardSignalNeverFollowsSoft ==
  ~(SentSignal(proc, "SIGTERM") /\ SentSignal(proc, "SIGKILL"))

\* C22: for a child ended because of its deadline the result has timedOut
\* true, and its exitCode is the code the OS reported when there is one
\* and 124 when there is none.
C22_TimedOutExitCode ==
  (run.timeout = "fired" /\ proc.closed) =>
     /\ run.resolved
     /\ run.result.timedOut
     /\ run.result.exitCode = IF proc.code.none THEN 124 ELSE proc.code.n

\* The child was ended by SIGTERM at its deadline: the OS reported no code
\* and the result carries 124.
C22_Witness ==
  /\ run.timeout = "fired" /\ proc.closed
  /\ SentSignal(proc, "SIGTERM") /\ proc.code.none
  /\ run.result.timedOut /\ run.result.exitCode = 124

\* The child handled SIGTERM and ended with code 0, which the result keeps.
TimedOutWithCodeZero ==
  /\ run.timeout = "fired" /\ proc.closed
  /\ ~proc.code.none /\ proc.code.n = 0
  /\ run.result.timedOut /\ run.result.exitCode = 0

\* Characters of stream data in a buffer, and its sentinels.
RECURSIVE DataLen(_)
DataLen(t) ==
  IF t = <<>> THEN 0 ELSE (IF Head(t).data THEN Head(t).n ELSE 0) + DataLen(Tail(t))

Sentinels(t) == Cardinality({i \in DOMAIN t : t[i] = Lit(TRUNCATED)})

EndsWithSentinel(t) == t # <<>> /\ t[Len(t)] = Lit(TRUNCATED)

BoundedWithSentinel(buffer, seen) ==
  /\ TextLen(buffer) <= MAX_OUTPUT_SIZE + Len(TRUNCATED)
  /\ seen > DataLen(buffer) => EndsWithSentinel(buffer) /\ Sentinels(buffer) = 1
  /\ seen = DataLen(buffer) => Sentinels(buffer) = 0

\* C23: for each of stdout and stderr the collected output never exceeds
\* 1 MB plus the sentinel; when any of the stream was discarded it ends
\* with the sentinel, exactly once, and otherwise the sentinel is absent.
C23_BoundedWithSentinel ==
  /\ BoundedWithSentinel(run.stdout, run.seenOut)
  /\ BoundedWithSentinel(run.stderr, run.seenErr)

\* What the handlers do hold to: the bound, a sentinel at most once and
\* only at the end, and none when nothing was discarded.
OutputBounded ==
  \A b \in {run.stdout, run.stderr} :
     /\ TextLen(b) <= MAX_OUTPUT_SIZE + Len(TRUNCATED)
     /\ DataLen(b) <= MAX_OUTPUT_SIZE
     /\ Sentinels(b) <= 1
     /\ Sentinels(b) = 1 => EndsWithSentinel(b)

SentinelOnlyAfterDiscard ==
  /\ Sentinels(run.stdout) = 1 => run.seenOut > DataLen(run.stdout)
  /\ Sentinels(run.stderr) = 1 => run.seenErr > DataLen(run.stderr)

Truncated ==
  /\ EndsWithSentinel(run.stdout)
  /\ run.chunks = MaxChunks /\ run.seenOut > MAX_OUTPUT_SIZE + 1

\* C30: when the client of the session disconnects, a child of that
\* session that is still running is sent SIGTERM (and SIGKILL five seconds
\* later) instead of running on to its completion or deadline.
C30_DisconnectCancels ==
  [][(session = "open" /\ session' = "closed" /\ proc.alive) =>
       SentSignal(proc', "SIGTERM")]_vars

\* What the disconnect does: nothing to the child or to the timers.
DisconnectLeavesChildAlone ==
  [][(session = "open" /\ session' = "closed") => UNCHANGED <<run, proc>>]_vars

(***************************************************************************)
(* SpecPatch: extractPathsFromPatch applied to two patches for the same    *)
(* files that differ in the header lines they carry.                       *)
(***************************************************************************)
\* Files a patch is for: two ordinary names and one under a directory
\* whose name ends in " b".
ChangedFiles == { <<"s","r","c","/","m","a","i","n">>, <<".","e","n","v">>, <<"p","l","a","n"," ","b","/","n","o","t","e","s">> }

ChangeKinds == {"modify", "new", "delete"}

\* The header lines of the section for one file, by name.
HeaderLine(which, kind, f) ==
  CASE which = "diff"  -> <<"d","i","f","f"," ","-","-","g","i","t"," ","a","/">> \o f \o <<" ","b","/">> \o f
    [] which = "minus" -> IF kind = "new" THEN <<"-","-","-"," ","/","d","e","v","/","n","u","l","l">> ELSE <<"-","-","-"," ","a","/">> \o f
    [] which = "plus"  -> IF kind = "delete" THEN <<"+","+","+"," ","/","d","e","v","/","n","u","l","l">> ELSE <<"+","+","+"," ","b","/">> \o f

\* The header lines that name the file.
NamingLines(kind) ==
  CASE kind = "new"    -> {"diff", "plus"}
    [] kind = "delete" -> {"diff", "minus"}
    [] OTHER           -> {"diff", "minus", "plus"}

\* A variant is the set of header lines a patch carries.
HeaderVariants == SUBSET {"diff", "minus", "plus"} \ {{}}

VariantSection(variant, change) ==
  SelectSeq(<<"diff", "minus", "plus">>, LAMBDA w : w \in variant)

RECURSIVE VariantLines(_, _)
VariantLines(variant, changes) ==
  IF changes = <<>> THEN <<>>
  ELSE LET c == Head(changes)
           carried == VariantSection(variant, c)
       IN  [i \in DOMAIN carried |-> HeaderLine(carried[i], c.kind, c.f)]
             \o <<HunkLine>> \o VariantLines(variant, Tail(changes))

VariantPatch(variant, changes) == JoinWith(VariantLines(variant, changes), <<"\n">>)

Changes ==
  UNION { [1..n -> [kind : ChangeKinds, f : ChangedFiles]] : n \in 1..MaxPatchFiles }

\* The variant names every file of the patch.
Names(variant, changes) ==
  \A i \in DOMAIN changes : variant \cap NamingLines(changes[i].kind) # {}

PatchInit ==
  /\ PathIdle /\ CmdIdle /\ ToolIdle /\ DaemonIdle
  /\ GitIdle /\ ListIdle /\ ProcIdle /\ ExtIdle
  /\ patchPc = "call"
  /\ patchIn \in {[changes |-> ch, a |-> va, b |-> vb] :
                    ch \in Changes,
                    va \in HeaderVariants, vb \in HeaderVariants}
  /\ Names(patchIn.a, patchIn.changes) /\ Names(patchIn.b, patchIn.changes)
  /\ patchOut = <<>>

ExtractPathsCall ==
  /\ patchPc = "call"
  /\ patchPc' = "done"
  /\ patchOut' = [a |-> extractPathsFromPatch(VariantPatch(patchIn.a, patchIn.changes)),
                  b |-> extractPathsFromPatch(VariantPatch(patchIn.b, patchIn.changes))]
  /\ UNCHANGED <<patchIn, pathVars, cmdVars, toolVars, daemonVars, gitVars, listVars,
                 procVars, extVars>>

SpecPatch == PatchInit /\ [][ExtractPathsCall]_vars

\* The files of a patch.
FilesOf(changes) == {changes[i].f : i \in DOMAIN changes}

\* C24: two patches for the same files that differ only in the header
\* variants they carry (a diff --git line, a --- a/ line, a +++ b/ line)
\* yield the same set of paths, and /dev/null is never among them.
C24_SamePathsWhateverHeaders ==
  patchPc = "done" =>
     /\ Range(patchOut.a) = Range(patchOut.b)
     /\ DevNull \notin Range(patchOut.a) \cup Range(patchOut.b)

\* What the extraction does hold to: /dev/null is never extracted, every
\* file is extracted from the --- a/ and +++ b/ lines, and the sets agree
\* for files whose names do not contain " b/".
DevNullNeverExtracted ==
  patchPc = "done" => DevNull \notin Range(patchOut.a) \cup Range(patchOut.b)

HasSpaceB(f) == \E i \in 1..(Len(f) - 2) : SubSeq(f, i, i + 2) = <<" ","b","/">>

SamePathsForPlainNames ==
  (patchPc = "done" /\ \A f \in FilesOf(patchIn.changes) : ~HasSpaceB(f)) =>
     /\ Range(patchOut.a) = FilesOf(patchIn.changes)
     /\ Range(patchOut.b) = FilesOf(patchIn.changes)

WithoutDiffLineExact ==
  (patchPc = "done" /\ "diff" \notin patchIn.a) =>
     Range(patchOut.a) = FilesOf(patchIn.changes)

(***************************************************************************)
(* The git tools (tools/git.ts): the arguments they build, the command     *)
(* line execGit hands to child_process.exec, and what the shell runs.      *)
(***************************************************************************)
\* An argument of a git command: fixed by the tool, or supplied by the
\* caller.
Fixed(v) == [v |-> v, user |-> FALSE]
User(v)  == [v |-> v, user |-> TRUE]

ArgValues(args) == [i \in DOMAIN args |-> args[i].v]

\* execGit: exec(`git ${args.join(" ")}`)
execGit(args) == <<"g","i","t"," ">> \o JoinWith(ArgValues(args), <<" ">>)

\* /bin/sh -c on a command line, as far as the lines here need it: `;`
\* ends a command, blanks separate the words of a command.
Words(command) == SelectSeq(Split(command, " "), LAMBDA w : Len(w) > 0)

sh(line) ==
  SelectSeq([i \in DOMAIN Split(line, ";") |-> Words(Split(line, ";")[i])],
            LAMBDA argv : Len(argv) > 0)

RevParseHead == <<Fixed(<<"r","e","v","-","p","a","r","s","e">>), Fixed(<<"-","-","a","b","b","r","e","v","-","r","e","f">>), Fixed(<<"H","E","A","D">>)>>

\* The argument lists each tool passes to execGit, in order, when every
\* command succeeds.
gitStatusArgs(input) ==
  << RevParseHead,
     <<Fixed(<<"r","e","v","-","l","i","s","t">>), Fixed(<<"-","-","c","o","u","n","t">>), Fixed(<<"-","-","l","e","f","t","-","r","i","g","h","t">>),
       Fixed(<<"@","{","u","p","s","t","r","e","a","m","}",".",".",".","H","E","A","D">>)>>,
     <<Fixed(<<"s","t","a","t","u","s">>), Fixed(<<"-","-","p","o","r","c","e","l","a","i","n","=","v","1">>)>> >>

gitDiffArgs(input) ==
  LET args == <<Fixed(<<"d","i","f","f">>)>>
                \o (IF input.staged THEN <<Fixed(<<"-","-","s","t","a","g","e","d">>)>> ELSE <<>>)
                \o (IF Len(input.path) > 0
                    THEN <<Fixed(<<"-","-">>), User(input.path)>> ELSE <<>>)
  IN  << args, Append(args, Fixed(<<"-","-","s","t","a","t">>)) >>

gitCheckoutArgs(input) ==
  << RevParseHead,
     <<Fixed(<<"c","h","e","c","k","o","u","t">>)>>
       \o (IF input.createBranch THEN <<Fixed(<<"-","b">>)>> ELSE <<>>)
       \o <<User(input.ref)>>,
     RevParseHead >>

gitCommitArgs(input) ==
  (IF Len(input.files) > 0
   THEN [i \in DOMAIN input.files |-> <<Fixed(<<"a","d","d">>), User(input.files[i])>>]
   ELSE IF input.all THEN << <<Fixed(<<"a","d","d">>), Fixed(<<"-","A">>)>> >> ELSE <<>>)
  \o << <<Fixed(<<"c","o","m","m","i","t">>), Fixed(<<"-","m">>), User(input.message)>>,
        <<Fixed(<<"r","e","v","-","p","a","r","s","e">>), Fixed(<<"H","E","A","D">>)>> >>

gitToolArgs(name, input) ==
  CASE name = "git.status"   -> gitStatusArgs(input)
    [] name = "git.diff"     -> gitDiffArgs(input)
    [] name = "git.checkout" -> gitCheckoutArgs(input)
    [] name = "git.commit"   -> gitCommitArgs(input)

\* Values a caller supplies: a word, a path, two words, an option, and a
\* value with a shell separator.
CallerValues == { <<"m","a","i","n">>, <<"s","r","c","/","m","a","i","n">>, <<"f","i","x"," ","b","u","g">>, <<"-","f">>, <<"x",";","i","d">> }

NoGitInput ==
  [staged |-> FALSE, path |-> <<>>, ref |-> <<>>, createBranch |-> FALSE,
   message |-> <<>>, files |-> <<>>, all |-> FALSE]

GitCalls ==
  { [name |-> "git.status", input |-> NoGitInput] }
  \cup { [name |-> "git.diff",
          input |-> [NoGitInput EXCEPT !.staged = st, !.path = p]] :
            st \in BOOLEAN, p \in {<<>>} \cup CallerValues }
  \cup { [name |-> "git.checkout",
          input |-> [NoGitInput EXCEPT !.ref = r, !.createBranch = cb]] :
            r \in CallerValues, cb \in BOOLEAN }
  \cup { [name |-> "git.commit",
          input |-> [NoGitInput EXCEPT !.message = m, !.files = fs, !.all = al]] :
            m \in CallerValues, fs \in {<<>>} \cup {<<v>> : v \in CallerValues},
            al \in BOOLEAN }

GitInit ==
  /\ PathIdle /\ CmdIdle /\ ToolIdle /\ DaemonIdle
  /\ PatchIdle /\ ListIdle /\ ProcIdle /\ ExtIdle
  /\ gitPc = "call"
  /\ gitIn \in GitCalls
  /\ gitOut = <<>>

\* One git tool runs: each execGit call with its arguments, the command
\* line and the commands the shell runs for it.
GitToolCall ==
  /\ gitPc = "call"
  /\ gitPc' = "done"
  /\ gitOut' = LET calls == gitToolArgs(gitIn.name, gitIn.input)
               IN  [i \in DOMAIN calls |->
                      [args |-> calls[i], line |-> execGit(calls[i]),
                       ran |-> sh(execGit(calls[i]))]]
  /\ UNCHANGED <<gitIn, pathVars, cmdVars, toolVars, daemonVars, patchVars, listVars,
                 procVars, extVars>>

SpecGit == GitInit /\ [][GitToolCall]_vars

\* git takes the argument at position i for an option: it starts with "-",
\* no "--" comes before it, and it is not the value of -m.
IsOption(v) == Len(v) > 0 /\ v[1] = "-"

TakenForOption(args, i) ==
  /\ IsOption(args[i].v)
  /\ \A j \in 1..(i - 1) : args[j].v # <<"-","-">>
  /\ ~(i > 1 /\ args[i - 1].v = <<"-","m">>)

\* One execGit call runs one git command whose arguments are the ones the
\* tool built, one for one.
RunsAsBuilt(call) == call.ran = << <<<<"g","i","t">>>> \o ArgValues(call.args) >>

\* C28: in every git tool each value the caller supplies (paths, refs,
\* branch names, commit message) reaches git as one separate non-option
\* positional argument, never as an option, a shell token or part of
\* another argument.
C28_UserValuesArePositional ==
  gitPc = "done" =>
    \A k \in DOMAIN gitOut :
       /\ RunsAsBuilt(gitOut[k])
       /\ \A i \in DOMAIN gitOut[k].args :
             gitOut[k].args[i].user => ~TakenForOption(gitOut[k].args, i)

\* What the tools do hold to: a value that is one plain word is passed as
\* one argument, and a path given to git.diff comes after "--".
PlainWord(v) == ~IsOption(v) /\ \A i \in DOMAIN v : v[i] \notin {" ", ";"}

PlainValuesReachGit ==
  (gitPc = "done" /\ \A k \in DOMAIN gitOut : \A i \in DOMAIN gitOut[k].args :
                        gitOut[k].args[i].user => PlainWord(gitOut[k].args[i].v)) =>
     \A k \in DOMAIN gitOut : RunsAsBuilt(gitOut[k])

CommitMessageSplit ==
  /\ gitPc = "done" /\ gitIn.name = "git.commit" /\ gitIn.input.message = <<"f","i","x"," ","b","u","g">>
  /\ \E k \in DOMAIN gitOut :
        gitOut[k].ran = << <<<<"g","i","t">>, <<"c","o","m","m","i","t">>, <<"-","m">>, <<"f","i","x">>, <<"b","u","g">>>> >>
(***************************************************************************)
(* SpecList: fs.list (fsList and listRecursive) over a small directory     *)
(* tree under the workspace root.                                          *)
(***************************************************************************)
MAX_LIST_ENTRIES == 1000

\* What fs.readdir and fs.stat see.  A directory entry has the directory it
\* is in, its name, the type its Dirent reports, and whether fs.stat (which
\* follows symbolic links) succeeds on it.
Node(dir, name, type, statable) ==
  [dir |-> dir, name |-> name, type |-> type, statable |-> statable]

Tree == <<
  Node(<<"/","w","/","p">>,                 <<"s","r","c">>,         "dir",     TRUE),
  Node(<<"/","w","/","p","/","s","r","c">>,             <<"m","a","i","n">>,        "file",    TRUE),
  Node(<<"/","w","/","p","/","s","r","c">>,             <<"l","i","n","k">>,        "symlink", TRUE),
  Node(<<"/","w","/","p","/","s","r","c">>,             <<"g","o","n","e">>,        "symlink", FALSE),
  Node(<<"/","w","/","p">>,                 <<".","e","n","v">>,        "file",    TRUE),
  Node(<<"/","w","/","p">>,                 <<"c","r","e","d","e","n","t","i","a","l","s">>, "dir",     TRUE),
  Node(<<"/","w","/","p","/","c","r","e","d","e","n","t","i","a","l","s">>,     <<"s","u","b">>,         "dir",     TRUE),
  Node(<<"/","w","/","p","/","c","r","e","d","e","n","t","i","a","l","s","/","s","u","b">>, <<"m","a","i","n">>,        "file",    TRUE),
  Node(<<"/","w","/","p">>,                 <<"s","e","c","r","e","t","s">>,     "dir",     TRUE),
  Node(<<"/","w","/","p","/","s","e","c","r","e","t","s">>,         <<"a","p","i">>,         "file",    TRUE) >>

NodesAt(absolutePath) ==
  SelectSeq(Tree, LAMBDA n : join(n.dir, n.name) = absolutePath)

\* fs.readdir(dir, {withFileTypes: true})
readdir(dirPath) == SelectSeq(Tree, LAMBDA n : n.dir = dirPath)

\* fs.stat(p): "dir", "file", or "ENOENT" when nothing is there or a
\* symbolic link dangles.  The links of the tree point to files.
stat(absolutePath) ==
  IF absolutePath = WorkspaceRoot THEN "dir"
  ELSE LET found == NodesAt(absolutePath)
       IN  IF Len(found) = 0 \/ ~found[1].statable THEN "ENOENT"
           ELSE IF found[1].type = "dir" THEN "dir" ELSE "file"

FsListEntry(p, item) == [path |-> p, type |-> item.type]

FsListOk(entries) ==
  [isError |-> FALSE, code |-> "", entries |-> entries,
   truncated |-> Len(entries) >= MAX_LIST_ENTRIES]

FsListError(code) ==
  [isError |-> TRUE, code |-> code, entries |-> <<>>, truncated |-> FALSE]

RECURSIVE listRecursive(_, _, _, _, _, _)
RECURSIVE listItems(_, _, _, _, _, _, _)

\* The for loop of listRecursive over the items of one directory.
listItems(items, dirPath, workspacePath, entries, depth, maxDepth, context) ==
  IF Len(items) = 0 \/ Len(entries) >= MAX_LIST_ENTRIES THEN entries
  ELSE LET item         == Head(items)
           itemAbsPath  == join(dirPath, item.name)
           relativePath == relative(workspacePath, itemAbsPath)
           validation   == validatePath(relativePath, context.workspace, context.config)
           pushed       == Append(entries, FsListEntry(relativePath, item))
           after        ==
             IF ~validation.valid THEN entries
             ELSE IF ~item.statable THEN entries
             ELSE IF item.type = "dir"
             THEN listRecursive(itemAbsPath, workspacePath, pushed, depth + 1,
                                maxDepth, context)
             ELSE pushed
       IN  listItems(Tail(items), dirPath, workspacePath, after, depth,
                     maxDepth, context)

listRecursive(dirPath, workspacePath, entries, depth, maxDepth, context) ==
  IF depth >= maxDepth \/ Len(entries) >= MAX_LIST_ENTRIES THEN entries
  ELSE listItems(readdir(dirPath), dirPath, workspacePath, entries, depth,
                 maxDepth, context)

\* The for loop of the non-recursive branch of fsList.
RECURSIVE listFlat(_, _, _, _)
listFlat(items, relativePath, entries, context) ==
  IF Len(items) = 0 \/ Len(entries) >= MAX_LIST_ENTRIES THEN entries
  ELSE LET item     == Head(items)
           itemPath == join(relativePath, item.name)
           after    ==
             IF ~validatePath(itemPath, context.workspace, context.config).valid
             THEN entries
             ELSE IF ~item.statable THEN entries
             ELSE Append(entries, FsListEntry(itemPath, item))
       IN  listFlat(Tail(items), relativePath, after, context)

fsList(input, context) ==
  LET validation == validatePath(input.path, context.workspace, context.config)
      kind       == stat(validation.absolutePath)
  IN  IF ~validation.valid THEN FsListError(validation.code)
      ELSE IF kind = "ENOENT" THEN FsListError("PATH_NOT_FOUND")
      ELSE IF kind # "dir" THEN FsListError("INVALID_PATH")
      ELSE IF input.recursive
      THEN FsListOk(listRecursive(validation.absolutePath, context.workspace.path,
                                  <<>>, 0, input.maxDepth, context))
      ELSE FsListOk(listFlat(readdir(validation.absolutePath),
                             validation.relativePath, <<>>, context))

ListPaths ==
  { <<".">>, <<"s","r","c">>, <<"c","r","e","d","e","n","t","i","a","l","s">>, <<"c","r","e","d","e","n","t","i","a","l","s","/","s","u","b">>, <<"s","e","c","r","e","t","s">>,
    <<"s","r","c","/","m","a","i","n">>, <<"n","o","n","e">>, <<".",".","/","x">>, <<"s","r","c","/","g","o","n","e">> }

\* maxDepth: the default of the destructuring in fsList, and two smaller caps.
MaxDepthChoices == {1, 2, 10}

ListDenyChoices == { <<>>, << <<"s","r","c","/","*","*">> >> }

FsListInputs ==
  [path : ListPaths, recursive : BOOLEAN, maxDepth : MaxDepthChoices,
   deny : ListDenyChoices]

ListCtx(deny) ==
  [workspace |-> Workspace("read", deny), config |-> Config(<<>>, <<>>, <<>>)]

ListInit ==
  /\ PathIdle /\ CmdIdle /\ ToolIdle /\ DaemonIdle
  /\ PatchIdle /\ GitIdle /\ ProcIdle /\ ExtIdle
  /\ listPc = "call"
  /\ listIn \in FsListInputs
  /\ listOut = <<>>

FsListCall ==
  /\ listPc = "call"
  /\ listPc' = "done"
  /\ listOut' = fsList(listIn, ListCtx(listIn.deny))
  /\ UNCHANGED <<listIn, pathVars, cmdVars, toolVars, daemonVars, patchVars,
                 gitVars, procVars, extVars>>

SpecList == ListInit /\ [][FsListCall]_vars

Listed == listPc = "done" /\ ~listOut.isError

ListAccepts(p) ==
  validatePath(p, Workspace("read", listIn.deny), Config(<<>>, <<>>, <<>>)).valid

Entries == {listOut.entries[i] : i \in DOMAIN listOut.entries}

\* The directories a workspace-relative path lies beneath.
Ancestors(p) ==
  LET segs == Split(p, "/")
  IN  {JoinWith(SubSeq(segs, 1, k), Slash) : k \in 1..(Len(segs) - 1)}

\* C29: a result of fs.list, recursive or not, holds no entry whose path
\* validatePath rejects, and nothing that lies beneath a directory that
\* validatePath rejects.
C29_NothingRejectedNorBeneathRejected ==
  Listed =>
    \A e \in Entries :
      /\ ListAccepts(e.path)
      /\ \A d \in Ancestors(e.path) : ListAccepts(d)

\* What holds of C29: every entry of a result is accepted by validatePath.
ListedEntriesAccepted ==
  Listed => \A e \in Entries : ListAccepts(e.path)

\* What holds of C29: a walk does not go into a directory that validatePath
\* rejects, so every directory between the listed one and an entry is
\* accepted.
ListedDir == relative(WorkspaceRoot, join(WorkspaceRoot, normalize(listIn.path)))

WalkSkipsRejectedDirectories ==
  Listed =>
    \A e \in Entries :
      \A d \in Ancestors(e.path) :
        Len(d) > Len(ListedDir) => ListAccepts(d)

\* What holds of C29: a rejected entry is left out without an error.
HasRejectedChild ==
  \E i \in DOMAIN Tree :
    /\ Tree[i].dir = join(WorkspaceRoot, normalize(listIn.path))
    /\ ~ListAccepts(relative(WorkspaceRoot, join(Tree[i].dir, Tree[i].name)))

RejectedEntrySkipped == Listed /\ HasRejectedChild /\ listOut.entries # <<>>

\* A listing of a directory that lies beneath a rejected directory.
ListedBeneathRejected ==
  /\ Listed /\ listIn.recursive /\ listOut.entries # <<>>
  /\ \E d \in Ancestors(ListedDir) \cup {} : ~ListAccepts(d)

(***************************************************************************)
(* Claims about the frames the daemon answers with (Spec).                 *)
(***************************************************************************)
\* The last message handled was a request frame.
RequestHandled == last.outcome # "none" /\ IsRequest(last.frame)

\* The request waits for its tool: its response is sent by handleToolsCall.
AnsweredLater == last.authBefore /\ last.frame.method = "tools.call"

\* C25: a request frame whose id is a string or a number, the number 0
\* among them, is answered with one response frame that carries the id of
\* the request.
C25_ResponseEchoesRequestId ==
  (RequestHandled /\ ~AnsweredLater) =>
    /\ last.reply.type = "res"
    /\ last.reply.id = last.frame.id

\* What holds of C25: a request whose id is neither 0 nor the empty string
\* and whose handler does not throw is answered with its own id.
TruthyIdEchoed ==
  (RequestHandled /\ ~AnsweredLater /\ ~falsy(last.frame.id)
     /\ last.outcome = "returns") =>
    /\ last.reply.type = "res"
    /\ last.reply.id = last.frame.id

\* What holds of C25: the response of a tool call carries the id of a
\* tools.call request that was made.
ToolCallIds ==
  {f.id : f \in {g \in DaemonFrames : g.method = "tools.call"}}

ToolResponsesCarryCallerId ==
  \A w \in Sockets : \A k \in DOMAIN wire[w] :
    wire[w][k].type = "res" => wire[w][k].id \in ToolCallIds

\* The request with the number 0 as id was answered under another id.
IdZeroAnsweredAsUnknown ==
  /\ RequestHandled /\ last.frame.id = IdNum("0")
  /\ last.reply.type = "res" /\ last.reply.id = IdUnknown

\* The error codes of the closed set.  GIT_ERROR is the code's spelling of
\* the version-control error.
ClosedErrorCodes ==
  {"FORBIDDEN_PATH", "PATH_NOT_FOUND", "INVALID_PATH", "COMMAND_DENIED",
   "PATCH_FAILED", "GIT_ERROR", "COMMAND_FAILED", "COMMAND_TIMEOUT",
   "APPROVAL_REQUIRED", "APPROVAL_DENIED", "UNAUTHORIZED",
   "PAYLOAD_TOO_LARGE", "METHOD_NOT_FOUND", "INTERNAL_ERROR"}

IsErrorResponse(f) == f.type = "res" /\ ~f.ok

\* C26: every error response of the daemon carries one code, and the code
\* is one of the closed set.
C26_ErrorCodesInClosedSet ==
  /\ IsErrorResponse(last.reply) => last.reply.code \in ClosedErrorCodes
  /\ \A w \in Sockets : \A k \in DOMAIN wire[w] :
       IsErrorResponse(wire[w][k]) => wire[w][k].code \in ClosedErrorCodes

\* What holds of C26: every error response carries one code, and the codes
\* outside the closed set are the three that handleMessage and
\* handleConnect write themselves.
ErrorCodesOfTheDaemon ==
  /\ IsErrorResponse(last.reply) =>
       last.reply.code \in ClosedErrorCodes
                            \cup {"PARSE_ERROR", "INVALID_REQUEST", "AUTH_FAILED"}
  /\ \A w \in Sockets : \A k \in DOMAIN wire[w] :
       IsErrorResponse(wire[w][k]) => wire[w][k].code \in ClosedErrorCodes

CodeOutsideClosedSet ==
  IsErrorResponse(last.reply) /\ last.reply.code \notin ClosedErrorCodes

\* The last message was answered with an error response of this code.
RejectedWith(code) ==
  IsErrorResponse(last.reply) /\ last.reply.code = code

\* An object that is no request frame, or a value that is no object.
StructurallyInvalid(frame) ==
  \/ frame.json = "null"
  \/ frame.json = "object" /\ ~IsRequest(frame)

KnownMethods == {"connect", "tools.list", "tools.call", "ping"}

\* The codes a tool call of the daemon fails with.
ToolLayerCodes ==
  {toolAnswers[key][git].out.code :
     key \in DOMAIN toolAnswers, git \in GitApplyBehaviours}

\* C27: a payload over the limit is answered PAYLOAD_TOO_LARGE, text that
\* does not parse PARSE_ERROR, a structurally invalid frame
\* INVALID_REQUEST, a request other than connect on a session that is not
\* authenticated UNAUTHORIZED, an unknown method METHOD_NOT_FOUND, and a
\* failed tool call the code of the tool.
C27_RejectionCodes ==
  /\ last.outcome # "none" =>
       /\ last.frame.json = "oversized" => RejectedWith("PAYLOAD_TOO_LARGE")
       /\ last.frame.json = "invalid" => RejectedWith("PARSE_ERROR")
       /\ StructurallyInvalid(last.frame) => RejectedWith("INVALID_REQUEST")
       /\ (IsRequest(last.frame) /\ last.frame.method # "connect"
             /\ ~last.authBefore) => RejectedWith("UNAUTHORIZED")
       /\ (IsRequest(last.frame) /\ last.frame.method \notin KnownMethods
             /\ last.authBefore) => RejectedWith("METHOD_NOT_FOUND")
  /\ \A w \in Sockets : \A k \in DOMAIN wire[w] :
       IsErrorResponse(wire[w][k]) => wire[w][k].code \in ToolLayerCodes

\* What holds of C27: the same mapping for the messages that the receiver
\* delivers, that are not the value null, and whose id is neither 0 nor the
\* empty string.
RejectionCodesOfDeliveredFrames ==
  /\ (last.outcome # "none" /\ last.frame.json \notin {"oversized", "null"}
        /\ ~(last.frame.json = "object" /\ last.frame.id.t \in {"string", "number"}
               /\ falsy(last.frame.id))) =>
       /\ last.frame.json = "invalid" => RejectedWith("PARSE_ERROR")
       /\ StructurallyInvalid(last.frame) => RejectedWith("INVALID_REQUEST")
       /\ (IsRequest(last.frame) /\ last.frame.method # "connect"
             /\ ~last.authBefore) => RejectedWith("UNAUTHORIZED")
       /\ (IsRequest(last.frame) /\ last.frame.method \notin KnownMethods
             /\ last.authBefore) => RejectedWith("METHOD_NOT_FOUND")
  /\ \A w \in Sockets : \A k \in DOMAIN wire[w] :
       IsErrorResponse(wire[w][k]) => wire[w][k].code \in ToolLayerCodes

\* A message over the limit went unanswered and its socket is closing.
LargeMessageUnanswered ==
  /\ last.frame.json = "oversized" /\ last.outcome = "refused"
  /\ last.reply.type = "none"
  /\ wsState[last.ws] \in {"closing", "closed"}

\* The size check of the "message" handler is never the one that answers.
PayloadTooLargeNeverSent ==
  /\ ~RejectedWith("PAYLOAD_TOO_LARGE")
  /\ \A w \in Sockets : \A k \in DOMAIN wire[w] :
       wire[w][k].code # "PAYLOAD_TOO_LARGE"

(***************************************************************************)
(* SpecToken: the token check of handleConnect on two supplied tokens,     *)
(* with what it does on the way: the length test, and the bytes that       *)
(* crypto.timingSafeEqual examines.                                        *)
(***************************************************************************)
\* crypto.timingSafeEqual(a, b) on the bytes of two strings: a RangeError
\* when the byte lengths differ; otherwise every byte is examined, equal
\* or not.
timingSafeEqual(a, b) ==
  IF ByteLength(a) # ByteLength(b)
  THEN [threw |-> TRUE, equal |-> FALSE, examined |-> 0]
  ELSE [threw |-> FALSE, equal |-> a = b, examined |-> ByteLength(a)]

\* The token check of handleConnect, step by step: `.length` of the two
\* strings (UTF-16 units) is compared first, and timingSafeEqual is called
\* only when they are equal.
tokenTrace(token) ==
  LET providedToken == IF token.t = "undefined" \/ (token.t = "string" /\ Len(token.chars) = 0)
                       THEN TokStr(<<>>) ELSE token
      sameLength == providedToken.t = "string"
                      /\ Len(providedToken.chars) = Len(authToken)
      cmp == timingSafeEqual(providedToken.chars, authToken)
  IN  IF ~sameLength
      THEN [result |-> "invalid", compared |-> FALSE, examined |-> 0]
      ELSE [result |-> IF cmp.threw THEN "throws"
                       ELSE IF cmp.equal THEN "valid" ELSE "invalid",
            compared |-> TRUE, examined |-> cmp.examined]

MaxTokenLen == 2

TokenChars == {"s", "3", "4", EAcute}

SuppliedTokens ==
  {TokNumber, TokUndefined}
    \cup {TokStr(chars) : chars \in UNION {[1..n -> TokenChars] : n \in 0..MaxTokenLen}}


TokenInit ==
  /\ PathIdle /\ CmdIdle /\ ToolIdle /\ DaemonIdle
  /\ PatchIdle /\ GitIdle /\ ListIdle /\ ProcIdle
  /\ OrchIdle /\ ClientIdle
  /\ tokPc = "call"
  /\ tokIn \in [a : SuppliedTokens, b : SuppliedTokens]
  /\ tokOut = <<>>

\* Two connect requests, one with each token.
TokenCheckCall ==
  /\ tokPc = "call"
  /\ tokPc' = "done"
  /\ tokOut' = [a |-> tokenTrace(tokIn.a), b |-> tokenTrace(tokIn.b)]
  /\ UNCHANGED <<tokIn, pathVars, cmdVars, toolVars, daemonVars, patchVars, gitVars,
                 listVars, procVars, orchVars, clientVars>>

SpecToken == TokenInit /\ [][TokenCheckCall]_vars

\* The length in bytes of a supplied token (of a value that is no string:
\* none).
TokenBytes(token) == IF token.t = "string" THEN ByteLength(token.chars) ELSE 0

SameByteLength(token) ==
  token.t = "string" /\ ByteLength(token.chars) = ByteLength(authToken)

\* C31: a supplied token whose length in bytes differs from that of the
\* daemon token is rejected before any comparison of bytes, and for two
\* supplied tokens of that length the comparison examines the same number
\* of bytes.
C31_LengthFirstThenConstantTime ==
  tokPc = "done" =>
    /\ ~SameByteLength(tokIn.a) =>
         tokOut.a.result = "invalid" /\ ~tokOut.a.compared
    /\ (SameByteLength(tokIn.a) /\ SameByteLength(tokIn.b)) =>
         /\ tokOut.a.compared /\ tokOut.b.compared
         /\ tokOut.a.examined = tokOut.b.examined

\* What holds of C31: a token whose length in characters differs is
\* rejected before any comparison of bytes.
OtherLengthRejectedFirst ==
  tokPc = "done" =>
    ((tokIn.a.t # "string" \/ Len(tokIn.a.chars) # Len(authToken)) =>
       tokOut.a.result = "invalid" /\ ~tokOut.a.compared)

\* What holds of C31: two tokens that are compared byte by byte have the
\* same number of bytes examined, whether and wherever they differ.
ComparedInConstantTime ==
  tokPc = "done" =>
    ((tokOut.a.compared /\ tokOut.a.result # "throws"
        /\ tokOut.b.compared /\ tokOut.b.result # "throws") =>
       tokOut.a.examined = tokOut.b.examined)

\* The trace agrees with tokenCheck.
TraceAgreesWithTokenCheck ==
  tokPc = "done" => tokOut.a.result = tokenCheck(tokIn.a)

\* A token of the daemon token's length in characters but not in bytes
\* reached timingSafeEqual.
ComparedDespiteByteLength ==
  tokPc = "done" /\ ~SameByteLength(tokIn.a) /\ tokOut.a.compared

(***************************************************************************)
(* SpecOrch: one TaskRunner (orchestrator/runner.ts) with the limit        *)
(* functions of the orchestrator core: one execute(task), and callTool     *)
(* invocations that overlap with it and with each other.                   *)
(***************************************************************************)
MaxPlanSteps == 3     \* steps of an explicit plan
MaxCallers   == 2     \* callTool invocations that can be open at once
MaxCalls     == 3     \* callTool invocations in one run

Callers == 1..MaxCallers

UpperLetters == <<"A","B","C","D","E","F","G","H","I","J","K","L","M","N","O","P","Q","R","S","T","U","V","W","X","Y","Z">>
LowerLetters == <<"a","b","c","d","e","f","g","h","i","j","k","l","m","n","o","p","q","r","s","t","u","v","w","x","y","z">>

\* String.prototype.toLowerCase on the letters A to Z.
toLowerCase(s) ==
  [i \in DOMAIN s |->
     IF \E k \in DOMAIN UpperLetters : UpperLetters[k] = s[i]
     THEN LowerLetters[CHOOSE k \in DOMAIN UpperLetters : UpperLetters[k] = s[i]]
     ELSE s[i]]

\* String.prototype.includes
includes(s, sub) ==
  \E i \in 0..(Len(s) - Len(sub)) : SubSeq(s, i + 1, i + Len(sub)) = sub

writeKeywords ==
  << <<"w","r","i","t","e">>, <<"e","d","i","t">>, <<"m","o","d","i","f","y">>, <<"c","r","e","a","t","e">>, <<"d","e","l","e","t","e">>, <<"r","e","m","o","v","e">>,
     <<"u","p","d","a","t","e">>, <<"c","h","a","n","g","e">>, <<"f","i","x">>, <<"p","a","t","c","h">>, <<"a","p","p","l","y">>, <<"c","o","m","m","i","t">>,
     <<"d","e","p","l","o","y">> >>

detectWriteOperations(task) ==
  LET goal == toLowerCase(task.goal)
  IN  \E k \in DOMAIN writeKeywords : includes(goal, writeKeywords[k])

DEFAULT_LIMITS == [maxSteps |-> 12, maxToolCalls |-> 20]

\* createOrchestratorContext(goal, limits): the given limits replace the
\* defaults; an absent limit is written 0 - 1 here.
Absent == 0 - 1

createOrchestratorContext(goal, limits) ==
  [goal |-> goal,
   limits |-> [maxSteps |-> IF limits.maxSteps = Absent
                            THEN DEFAULT_LIMITS.maxSteps ELSE limits.maxSteps,
               maxToolCalls |-> IF limits.maxToolCalls = Absent
                                THEN DEFAULT_LIMITS.maxToolCalls
                                ELSE limits.maxToolCalls],
   stats |-> [stepCount |-> 0, toolCallCount |-> 0]]

checkLimits(c) ==
  IF c.stats.stepCount >= c.limits.maxSteps
  THEN [exceeded |-> TRUE, reason |-> "Max steps exceeded"]
  ELSE IF c.stats.toolCallCount >= c.limits.maxToolCalls
  THEN [exceeded |-> TRUE, reason |-> "Max tool calls exceeded"]
  ELSE [exceeded |-> FALSE, reason |-> ""]

incrementStep(c) == [c EXCEPT !.stats.stepCount = @ + 1]

recordToolCall(c) == [c EXCEPT !.stats.toolCallCount = @ + 1]

\* buildStructuredOutput and createCheckpoint, as far as status, risks and
\* the approval flag go.
StructuredOutput(status, tldr, risks) ==
  [type |-> "output", status |-> status, tldr |-> tldr, risks |-> risks,
   requiresApproval |-> FALSE]

Checkpoint ==
  [type |-> "checkpoint", status |-> "", tldr |-> "", risks |-> <<>>,
   requiresApproval |-> TRUE]

NoTaskResult ==
  [type |-> "none", status |-> "", tldr |-> "", risks |-> <<>>,
   requiresApproval |-> FALSE]

\* The for loop of executePlan over the plan steps from step i on: the
\* counter is incremented, then the limits are tested; the loop has no
\* await, so it runs without another handler in between.  `ran` are the
\* steps executed, each with the value of the counter it ran under.
RECURSIVE planLoop(_, _, _, _, _)
planLoop(c, n, i, ran, risks) ==
  IF i > n THEN [ctx |-> c, ran |-> ran, risks |-> risks]
  ELSE LET c1 == incrementStep(c)
           limitCheck == checkLimits(c1)
       IN  IF limitCheck.exceeded
           THEN [ctx |-> c1, ran |-> ran, risks |-> Append(risks, limitCheck.reason)]
           ELSE planLoop(c1, n, i + 1,
                         Append(ran, [step |-> i, stepCount |-> c1.stats.stepCount]),
                         risks)

\* Tasks: a goal, an explicit plan of some length or none, limits, and
\* the readOnly flag ("unset" when the task does not have it).
Goals == { <<"A","n","a","l","y","z","e"," ","c","o","d","e","b","a","s","e">>, <<"F","i","x"," ","t","h","e"," ","b","u","g">>, <<"R","e","v","i","e","w"," ","P","R","E","F","I","X","E","S">> }

PlanLengths == {Absent, 0, 1, MaxPlanSteps}

StepLimits == {Absent, 0, 1, 2}

ToolCallLimits == {Absent, 1, 2}

Tasks ==
  [goal : Goals, plan : PlanLengths,
   limits : [maxSteps : StepLimits, maxToolCalls : ToolCallLimits],
   readOnly : {"true", "false", "unset"}]

NoRun ==
  [pc |-> "ready", task |-> <<>>, planned |-> FALSE, ran |-> <<>>,
   risks |-> <<>>, result |-> NoTaskResult]

NoCall == [state |-> "idle", code |-> ""]

\* new TaskRunner(runCtx, logger): orchCtx is null.
OrchConstructed ==
  /\ orchCtx = <<>>
  /\ orchRun = NoRun
  /\ callers = [c \in Callers |-> NoCall]
  /\ executions = [started |-> 0, calls |-> 0, peak |-> 0]

OrchInit ==
  /\ PathIdle /\ CmdIdle /\ ToolIdle /\ DaemonIdle
  /\ PatchIdle /\ GitIdle /\ ListIdle /\ ProcIdle
  /\ TokIdle /\ ClientIdle
  /\ OrchConstructed

orchOthers == <<pathVars, cmdVars, toolVars, daemonVars, patchVars, gitVars, listVars,
                procVars, tokVars, clientVars>>

\* execute(task) up to its first await: the context is created and the
\* limits are tested; a task without a plan has its planning step counted
\* and waits for the ChangePlanner agent.
Execute(task) ==
  /\ orchRun.pc = "ready"
  /\ LET c == createOrchestratorContext(task.goal, task.limits)
         limitCheck == checkLimits(c)
     IN  IF limitCheck.exceeded
         THEN /\ orchCtx' = c
              /\ orchRun' = [orchRun EXCEPT !.pc = "done", !.task = task,
                   !.result = StructuredOutput("failure",
                                "Limits exceeded before starting", <<>>)]
         ELSE IF task.plan \in {Absent, 0}
         THEN /\ orchCtx' = incrementStep(c)
              /\ orchRun' = [orchRun EXCEPT !.pc = "planning", !.task = task,
                                            !.planned = TRUE]
         ELSE /\ orchCtx' = c
              /\ orchRun' = [orchRun EXCEPT !.pc = "plan", !.task = task]
  /\ UNCHANGED <<callers, executions, orchOthers>>

\* The ChangePlanner agent has settled.
PlannerSettles(success) ==
  /\ orchRun.pc = "planning"
  /\ orchRun' = IF success THEN [orchRun EXCEPT !.pc = "plan"]
                ELSE [orchRun EXCEPT !.pc = "done",
                        !.result = StructuredOutput("failure", "Failed to create plan",
                                                    <<"Unknown planning error">>)]
  /\ UNCHANGED <<orchCtx, callers, executions, orchOthers>>

\* executePlan from the write test to its await on the RiskReviewer agent:
\* a checkpoint is returned, or the plan steps run.
RunPlan ==
  /\ orchRun.pc = "plan"
  /\ LET task == orchRun.task
         requiresWrite == detectWriteOperations(task)
         \* task.plan || ["Analyze", "Execute", "Verify"]: an empty plan is
         \* truthy and stays empty
         n == IF task.plan = Absent THEN 3 ELSE task.plan
         loop == planLoop(orchCtx, n, 1, <<>>, <<>>)
     IN  IF requiresWrite /\ task.readOnly # "false"
         THEN /\ orchRun' = [orchRun EXCEPT !.pc = "done", !.result = Checkpoint]
              /\ UNCHANGED orchCtx
         ELSE /\ orchCtx' = loop.ctx
              /\ orchRun' = [orchRun EXCEPT !.pc = "review", !.ran = loop.ran,
                                            !.risks = loop.risks]
  /\ UNCHANGED <<callers, executions, orchOthers>>

\* The RiskReviewer agent has settled, with a critical risk or without:
\* the status is failure only when a risk is marked critical.
ReviewSettles(critical) ==
  /\ orchRun.pc = "review"
  /\ LET risks == IF critical THEN Append(orchRun.risks, "[critical]")
                  ELSE orchRun.risks
     IN  orchRun' = [orchRun EXCEPT !.pc = "done", !.risks = risks,
                       !.result = StructuredOutput(
                          IF critical THEN "failure" ELSE "success", "", risks)]
  /\ UNCHANGED <<orchCtx, callers, executions, orchOthers>>

\* callTool up to `await executeTool`: the limits are tested and the tool
\* is started.
CallTool(c) ==
  /\ orchCtx # <<>>
  /\ callers[c].state = "idle"
  /\ executions.calls < MaxCalls
  /\ LET limitCheck == checkLimits(orchCtx)
         open == Cardinality({d \in Callers : callers[d].state = "executing"})
     IN  IF limitCheck.exceeded
         THEN /\ callers' = [callers EXCEPT ![c] =
                    [state |-> "idle", code |-> "LIMIT_EXCEEDED"]]
              /\ executions' = [executions EXCEPT !.calls = @ + 1]
         ELSE /\ callers' = [callers EXCEPT ![c] =
                    [state |-> "executing", code |-> ""]]
              /\ executions' = [started |-> executions.started + 1,
                                calls |-> executions.calls + 1,
                                peak |-> IF open + 1 > executions.peak
                                         THEN open + 1 ELSE executions.peak]
  /\ UNCHANGED <<orchCtx, orchRun, orchOthers>>

\* callTool after the await: the call is recorded.
ToolSettles(c) ==
  /\ callers[c].state = "executing"
  /\ orchCtx' = recordToolCall(orchCtx)
  /\ callers' = [callers EXCEPT ![c] = [state |-> "idle", code |-> ""]]
  /\ UNCHANGED <<orchRun, executions, orchOthers>>

OrchNext ==
  \/ \E task \in Tasks : Execute(task)
  \/ \E success \in BOOLEAN : PlannerSettles(success)
  \/ RunPlan
  \/ \E critical \in BOOLEAN : ReviewSettles(critical)
  \/ \E c \in Callers : CallTool(c)
  \/ \E c \in Callers : ToolSettles(c)

SpecOrch == OrchInit /\ [][OrchNext]_vars

(***************************************************************************)
(* Claims about the orchestrator limits and the checkpoint, on SpecOrch.   *)
(***************************************************************************)
RunDone == orchRun.pc = "done"

StoppedByStepLimit ==
  \E k \in DOMAIN orchRun.risks : orchRun.risks[k] = "Max steps exceeded"

\* C35: the step counter never exceeds maxSteps, no planning or plan step
\* runs once the counter has reached maxSteps, and a run stopped by the
\* limit ends with a failure.
C35_StepCounterWithinMaxSteps ==
  orchCtx # <<>> =>
    /\ orchCtx.stats.stepCount <= orchCtx.limits.maxSteps
    /\ (RunDone /\ StoppedByStepLimit => orchRun.result.status = "failure")

\* What the code keeps of C35: a run whose limit is reached before it
\* starts fails without a step, and no plan step runs under a counter that
\* has reached maxSteps; the counter itself passes maxSteps by at most one.
PlanStepsBelowMaxSteps ==
  orchCtx # <<>> =>
    /\ \A k \in DOMAIN orchRun.ran :
         orchRun.ran[k].stepCount < orchCtx.limits.maxSteps
    /\ orchCtx.stats.stepCount <= orchCtx.limits.maxSteps + 1
    /\ (orchCtx.limits.maxSteps = 0 /\ RunDone =>
          /\ orchRun.result.status = "failure"
          /\ orchRun.ran = <<>> /\ ~orchRun.planned)

StepCounterPastLimit ==
  /\ orchCtx # <<>>
  /\ orchCtx.stats.stepCount > orchCtx.limits.maxSteps

StoppedRunSucceeds ==
  RunDone /\ StoppedByStepLimit /\ orchRun.result.status = "success"

\* C36: the tool executions started through callTool never exceed
\* maxToolCalls, also when calls overlap.
C36_ExecutionsWithinMaxToolCalls ==
  orchCtx # <<>> => executions.started <= orchCtx.limits.maxToolCalls

\* What the code keeps of C36: a call that starts when maxToolCalls calls
\* have been recorded is refused, so the executions exceed maxToolCalls by
\* less than the number of calls that were open together.
ExecutionsWithinOverlap ==
  orchCtx # <<>> =>
    /\ orchCtx.stats.toolCallCount <= executions.started
    /\ (executions.peak <= 1 => executions.started <= orchCtx.limits.maxToolCalls)
    /\ executions.started <= orchCtx.limits.maxToolCalls + executions.peak - 1
         \/ executions.started = 0

OverlappingCallsPassLimit ==
  /\ orchCtx # <<>>
  /\ executions.peak = 2
  /\ executions.started > orchCtx.limits.maxToolCalls

\* C37: a task whose goal is detected as a write operation ends with a
\* checkpoint that requires approval, whatever its readOnly setting, and
\* none of its plan steps runs.
C37_WriteTaskEndsInCheckpoint ==
  orchRun.pc \in {"review", "done"} /\ detectWriteOperations(orchRun.task) =>
    /\ orchRun.ran = <<>>
    /\ RunDone => orchRun.result.type = "checkpoint" /\ orchRun.result.requiresApproval

\* What the code keeps of C37: a write task that is not marked
\* readOnly: false runs no plan step, and ends with a checkpoint unless it
\* failed before the write test.
ReadOnlyWriteTaskEndsInCheckpoint ==
  orchRun.pc \in {"review", "done"} /\ detectWriteOperations(orchRun.task)
    /\ orchRun.task.readOnly # "false" =>
    /\ RunDone /\ orchRun.ran = <<>>
    /\ \/ orchRun.result.type = "checkpoint" /\ orchRun.result.requiresApproval
       \/ orchRun.result.status = "failure" /\ orchRun.risks = <<>>

WriteTaskRanSteps ==
  /\ RunDone /\ detectWriteOperations(orchRun.task)
  /\ orchRun.task.readOnly = "false"
  /\ orchRun.ran # <<>>
  /\ orchRun.result.type = "output"

WriteTaskCheckpointed ==
  /\ RunDone /\ detectWriteOperations(orchRun.task)
  /\ orchRun.result = Checkpoint

(***************************************************************************)
(* SpecClient: one LocalAgentClient with one WebSocket: its requests, the  *)
(* request timers, the send callbacks, the responses of the daemon, the    *)
(* close event of the socket and close().                                  *)
(***************************************************************************)
MaxRequests == 3      \* requests of one client, the connect request included

RequestIds == 1..MaxRequests

NoRequest ==
  [state |-> "unused", method |-> "", settledBy |-> "", timer |-> "none",
   sent |-> "no", responded |-> FALSE]

\* new LocalAgentClient(options)
ClientConstructed ==
  /\ conn = [ws |-> "null", socket |-> "none", connected |-> FALSE,
             authenticated |-> FALSE]
  /\ pendingRequests = {}
  /\ requests = [id \in RequestIds |-> NoRequest]

ClientInit ==
  /\ PathIdle /\ CmdIdle /\ ToolIdle /\ DaemonIdle
  /\ PatchIdle /\ GitIdle /\ ListIdle /\ ProcIdle
  /\ TokIdle /\ OrchIdle
  /\ ClientConstructed

clientOthers == <<pathVars, cmdVars, toolVars, daemonVars, patchVars, gitVars, listVars,
                  procVars, tokVars, orchVars>>

\* crypto.randomUUID(): an id no request has had.
FreshIds == {id \in RequestIds : requests[id].state = "unused"}

\* resolve or reject of a request's promise: a settled promise stays as
\* it is.
settle(r, outcome, by) ==
  IF r.state = "pending" THEN [r EXCEPT !.state = outcome, !.settledBy = by] ELSE r

\* close()
close(c) ==
  [ws |-> "null",
   socket |-> IF c.ws = "set" /\ c.socket \in {"connecting", "open"}
              THEN "closing" ELSE c.socket,
   connected |-> FALSE, authenticated |-> FALSE]

\* The rest of the "open" handler of connect(), which waits for the
\* connect request: the client is authenticated by the hello, and closes
\* when the request was rejected.
afterRequest(c, before, after) ==
  IF before.method = "connect" /\ before.state = "pending"
  THEN IF after.state = "resolved" THEN [c EXCEPT !.authenticated = TRUE]
       ELSE IF after.state = "rejected" THEN close(c)
       ELSE c
  ELSE c

\* request(method, params) after its connection test: the timer is set
\* and the entry is stored, then the frame is serialised and handed to
\* the socket; JSON.stringify throws on parameters it cannot serialise,
\* and the Promise executor turns the throw into a rejection.
request(id, method, serialisable) ==
  LET stored == [NoRequest EXCEPT !.state = "pending", !.method = method,
                                  !.timer = "armed"]
  IN  IF serialisable THEN [stored EXCEPT !.sent = "queued"]
      ELSE settle(stored, "rejected", "throw")

\* connect() up to new WebSocket(url).
ClientConnect ==
  /\ ~conn.connected /\ conn.socket = "none"
  /\ conn' = [conn EXCEPT !.ws = "set", !.socket = "connecting"]
  /\ UNCHANGED <<pendingRequests, requests, clientOthers>>

\* The "open" event: the client is connected and sends its connect
\* request.
Open ==
  /\ conn.socket = "connecting"
  /\ \E id \in FreshIds :
       /\ id = CHOOSE x \in FreshIds : \A y \in FreshIds : x <= y
       /\ conn' = [conn EXCEPT !.socket = "open", !.connected = TRUE]
       /\ requests' = [requests EXCEPT ![id] = request(id, "connect", TRUE)]
       /\ pendingRequests' = pendingRequests \cup {id}
  /\ UNCHANGED clientOthers

\* callTool(name, args): refused unless authenticated, then request.
CallToolRequest(serialisable) ==
  /\ conn.authenticated
  /\ conn.ws = "set" /\ conn.connected
  /\ \E id \in FreshIds :
       /\ id = CHOOSE x \in FreshIds : \A y \in FreshIds : x <= y
       /\ requests' = [requests EXCEPT ![id] = request(id, "tools.call", serialisable)]
       /\ pendingRequests' = pendingRequests \cup {id}
  /\ UNCHANGED <<conn, clientOthers>>

\* The socket has written the frame.
SendOk(id) ==
  /\ requests[id].sent = "queued"
  /\ conn.socket = "open"
  /\ requests' = [requests EXCEPT ![id].sent = "ok"]
  /\ UNCHANGED <<conn, pendingRequests, clientOthers>>

\* The send callback with an error.
SendFails(id) ==
  /\ requests[id].sent = "queued"
  /\ LET r == requests[id]
         cleared == [r EXCEPT !.sent = "failed",
                              !.timer = IF r.timer = "armed" THEN "cleared" ELSE @]
         after == settle(cleared, "rejected", "send")
     IN  /\ requests' = [requests EXCEPT ![id] = after]
         /\ pendingRequests' = pendingRequests \ {id}
         /\ conn' = afterRequest(conn, r, after)
  /\ UNCHANGED clientOthers

\* handleResponse(frame) for the response of the daemon to request id.
handleResponse(id, ok) ==
  /\ requests[id].sent = "ok" /\ ~requests[id].responded
  /\ conn.socket \in {"open", "closing"}
  /\ LET r == [requests[id] EXCEPT !.responded = TRUE]
         cleared == [r EXCEPT !.timer = IF r.timer = "armed" THEN "cleared" ELSE @]
         after == settle(cleared, IF ok THEN "resolved" ELSE "rejected", "response")
     IN  IF id \notin pendingRequests
         THEN /\ requests' = [requests EXCEPT ![id] = r]
              /\ UNCHANGED <<conn, pendingRequests>>
         ELSE /\ requests' = [requests EXCEPT ![id] = after]
              /\ pendingRequests' = pendingRequests \ {id}
              /\ conn' = afterRequest(conn, r, after)
  /\ UNCHANGED clientOthers

\* The timer of request id fires: the entry is deleted and reject is
\* called.
RequestTimeout(id) ==
  /\ requests[id].timer = "armed"
  /\ LET r == requests[id]
         after == settle([r EXCEPT !.timer = "fired"], "rejected", "timeout")
     IN  /\ requests' = [requests EXCEPT ![id] = after]
         /\ pendingRequests' = pendingRequests \ {id}
         /\ conn' = afterRequest(conn, r, after)
  /\ UNCHANGED clientOthers

\* The "close" event of the socket: handleClose().
handleClose ==
  /\ conn.socket \in {"open", "closing"}
  /\ LET closedReq(r) ==
           settle([r EXCEPT !.timer = IF r.timer = "armed" THEN "cleared" ELSE @],
                  "rejected", "close")
         c1 == [conn EXCEPT !.socket = "closed", !.connected = FALSE,
                            !.authenticated = FALSE]
         connectOpen == \E id \in pendingRequests :
                           requests[id].method = "connect"
                             /\ requests[id].state = "pending"
     IN  /\ requests' = [id \in RequestIds |->
                           IF id \in pendingRequests THEN closedReq(requests[id])
                           ELSE requests[id]]
         /\ pendingRequests' = {}
         /\ conn' = IF connectOpen THEN close(c1) ELSE c1
  /\ UNCHANGED clientOthers

\* close() called by the owner of the client.
ClientClose ==
  /\ conn.ws = "set"
  /\ conn' = close(conn)
  /\ UNCHANGED <<pendingRequests, requests, clientOthers>>

ClientNext ==
  \/ ClientConnect
  \/ Open
  \/ \E serialisable \in BOOLEAN : CallToolRequest(serialisable)
  \/ \E id \in RequestIds : SendOk(id)
  \/ \E id \in RequestIds : SendFails(id)
  \/ \E id \in RequestIds : \E ok \in BOOLEAN : handleResponse(id, ok)
  \/ \E id \in RequestIds : RequestTimeout(id)
  \/ handleClose
  \/ ClientClose

SpecClient == ClientInit /\ [][ClientNext]_vars

\* Every timer fires and every socket that was opened emits its close
\* event, in the end.
SpecClientFair ==
  /\ SpecClient
  /\ \A id \in RequestIds : WF_vars(RequestTimeout(id))

Settled(id) == requests[id].state \in {"resolved", "rejected"}

\* C40: every request settles once, by its response, its timeout or the
\* close of the connection; after the close no entry is left in the
\* pending map, and no timer of a settled request fires later.
C40_SettledOnceNoLateTimer ==
  /\ \A id \in RequestIds :
       /\ Settled(id) => requests[id].settledBy \in {"response", "timeout", "close"}
       /\ requests[id].timer = "fired" => requests[id].settledBy = "timeout"
  /\ conn.socket = "closed" => pendingRequests = {}

\* What the code keeps of C40: a request whose frame was handed to the
\* socket is settled by its response, its timeout, the close of the
\* connection or the error of the send, its timer fires only to settle
\* it, and a settled one has no entry and no armed timer; every pending
\* request has an entry and an armed timer; the close event empties the
\* pending map.
SentRequestsSettleOnce ==
  /\ \A id \in RequestIds :
       /\ requests[id].state = "pending" =>
            id \in pendingRequests /\ requests[id].timer = "armed"
       /\ requests[id].sent # "no" /\ Settled(id) =>
            /\ requests[id].settledBy \in {"response", "timeout", "close", "send"}
            /\ id \notin pendingRequests
            /\ requests[id].timer \in {"cleared", "fired"}
            /\ requests[id].timer = "fired" <=> requests[id].settledBy = "timeout"
  /\ conn.socket = "closed" => pendingRequests = {}

\* Under SpecClientFair: every request that was made settles.
RequestsSettle ==
  \A id \in RequestIds : requests[id].state = "pending" ~> Settled(id)

LateTimer ==
  \E id \in RequestIds :
    /\ requests[id].timer = "fired"
    /\ requests[id].settledBy = "throw"

SettledByTimeoutAndClose ==
  /\ conn.socket = "closed"
  /\ \E id \in RequestIds : requests[id].settledBy = "timeout"
  /\ \E id \in RequestIds : requests[id].settledBy = "close"
  /\ \E id \in RequestIds : requests[id].settledBy = "response"

(***************************************************************************)
(* Claims about the heartbeat broadcast and the numbering of the events    *)
(* delivered, on Spec.                                                     *)
(***************************************************************************)
IsTick(f) == f.type = "event" /\ f.event = "tick"

\* C32: a tick is delivered to every authenticated session whose socket is
\* open and whose send does not throw, with the next seq of the session,
\* and nothing is sent to a session that is not authenticated: a send that
\* throws for one session keeps the tick from no other.
TickReachesAuthenticatedSessions ==
  [][ticks' = ticks + 1 =>
       \A w \in Sockets :
          /\ (w \in clients /\ client[w].authenticated /\ wsState[w] = "open"
                /\ sendFailed'[w] = sendFailed[w]) =>
               wire'[w] = Append(wire[w],
                                 EventFrame("tick", "", NoCallId, client[w].eventSeq + 1))
          /\ ~(w \in clients /\ client[w].authenticated) =>
               wire'[w] = wire[w] /\ client'[w] = client[w]]_vars

\* The send of a tick threw for one session, and the tick was delivered to
\* another.
TickPastFailedSend ==
  /\ ticks = 1
  /\ \E v, w \in Sockets :
       /\ sendFailed[v] # {} /\ wire[v] = <<>>
       /\ wire[w] # <<>> /\ IsTick(wire[w][Len(wire[w])])

IsEventFrame(f) == f.type = "event"

DeliveredEvents(w) == SelectSeq(wire[w], IsEventFrame)

\* C38: on every session the k-th event delivered has seq k.
C38_DeliveredSeqConsecutive ==
  \A w \in Sockets :
     \A k \in DOMAIN DeliveredEvents(w) : DeliveredEvents(w)[k].seq = k

\* What the code keeps of C38: the seq of a session is spent on every
\* send, so the k-th event delivered has seq k plus the number of sends
\* to the session that threw before it.
SeqSkipsFailedSends ==
  \A w \in Sockets :
     \A k \in DOMAIN DeliveredEvents(w) :
        LET seq == DeliveredEvents(w)[k].seq
        IN  /\ seq \notin sendFailed[w]
            /\ seq = k + Cardinality({f \in sendFailed[w] : f < seq})

DeliveredAfterFailedSend ==
  \E w \in Sockets :
     /\ sendFailed[w] = {1}
     /\ DeliveredEvents(w) # <<>>
     /\ DeliveredEvents(w)[1].seq = 2

(***************************************************************************)
(* SpecSessions: the daemon with two sessions that authenticate and call   *)
(* tools, one RunContext behind both.                                      *)
(***************************************************************************)
MaxSessionMessages == 4    \* messages handled in one run, over both sessions

SessionToolKeys == {"commit", "patch"}

SessionFrames ==
  { ConnectFrame(IdStr("c1"), TokStr(authToken)) }
    \cup { ToolsCallFrame(IdStr("t1"), key, 0) : key \in SessionToolKeys }

\* One of the messages of the two sessions.
SessionMessage(ws, frame) ==
  /\ handled < MaxSessionMessages
  /\ OnMessage(ws, frame)

SessionsNext ==
  \/ Start
  \/ \E ws \in Sockets : Connection(ws)
  \/ \E ws \in Sockets : \E frame \in SessionFrames : SessionMessage(ws, frame)
  \/ \E i \in 1..MaxSessionMessages : ToolRuns(i)
  \/ \E i \in 1..MaxSessionMessages : ToolsCallFinish(i)
  \/ \E ws \in Sockets : Close(ws)

SpecSessions == Init /\ [][SessionsNext]_vars

ToolCallAudits == SelectSeq(auditLog, LAMBDA e : e.type = "tool_call")

\* C33: an audit buffer is appended to by the one session that owns it:
\* the tools.call of one session adds no entry to the buffer that records
\* the calls of another.
C33_AuditBufferOfOneSession ==
  \A i, j \in DOMAIN ToolCallAudits :
     ToolCallAudits[i].session = ToolCallAudits[j].session

\* What the daemon does: every tools.call that reaches its audit step, of
\* whichever session, is recorded in the one buffer of the one RunContext.
AllCallsInOneBuffer ==
  Len(ToolCallAudits) = Cardinality({i \in DOMAIN callLog : callLog[i].kind = "audit"})

TwoSessionsInOneBuffer ==
  \E i, j \in DOMAIN ToolCallAudits :
     ToolCallAudits[i].session # ToolCallAudits[j].session

=============================================================================
